---- MODULE Spec2Model ----
(***************************************************************************)
(* lessweb: the dependency-injection container (lessweb/ioc.py             *)
(* autowire_module, autowire), the request data stack and the request      *)
(* binders (ioc.py autowire_handler, bridge.py make_router).               *)
(***************************************************************************)
EXTENDS Integers, Sequences, FiniteSets, TLC

(***************************************************************************)
(* Bounds of the model.                                                    *)
(***************************************************************************)
MaxRequests == 2
MaxPush == 2
MaxAppCalls == 1
MaxMiddlewares == 3

ReqIds == 1..MaxRequests

(***************************************************************************)
(* Types known to the application.  ModA/ModB derive from Module, SvcA     *)
(* from Service, MidB from Middleware; Conn and Plain derive from none of  *)
(* them (Conn is the type a bean factory may be registered for).           *)
(* "Request" is aiohttp's Request class, "Any" the type of an unannotated  *)
(* parameter, "Alias" a generic alias such as list[int] (not a class).     *)
(***************************************************************************)
Classes == {"ModA", "ModB", "SvcA", "MidB", "Conn", "Plain"}
Types == Classes \cup {"Request", "Any", "Alias"}

IsClass(t) == t # "Alias"
IsModule(t) == t \in {"ModA", "ModB"}
IsMiddlewareOrService(t) == t \in {"SvcA", "MidB"}

\* instances of t have the attributes on_startup, on_cleanup and on_shutdown
HasHooks(t) == IsModule(t)

\* cls.__init__ is a Python function (func_arg_spec's assertion)
HasFunctionInit(t) == t \in Classes \cup {"Request"}

LESSWEB_SCAN_PATH == "/__lessweb__/__scan__"
Paths == {"/user", LESSWEB_SCAN_PATH}

(***************************************************************************)
(* Values and registry slots.                                              *)
(***************************************************************************)
NoVal == [k |-> "none", cls |-> "-", id |-> 0, args |-> <<>>, scope |-> 0]
RequestVal(r) == [k |-> "request", cls |-> "Request", id |-> 0, args |-> <<>>, scope |-> r]
\* the string stored in the slot on a scan request
ScanMark == [k |-> "scanmark", cls |-> "-", id |-> 0, args |-> <<>>, scope |-> 0]

\* Python's None, as a bean factory may return it
PyNone == [k |-> "None", cls |-> "-", id |-> 0, args |-> <<>>, scope |-> 0]

\* a slot holding None is the mark "being resolved": PENDING
AbsentSlot == [st |-> "ABSENT", val |-> NoVal]
PendingSlot == [st |-> "PENDING", val |-> NoVal]
ReadySlot(v) == [st |-> "READY", val |-> v]

EmptyRegistry == [t \in Types |-> AbsentSlot]

VARIABLES cfg, app, on_startup, on_cleanup, on_shutdown, made, req, returned, raised,
          appCalls, casted, emitter

vars == <<cfg, app, on_startup, on_cleanup, on_shutdown, made, req, returned, raised,
          appCalls, casted, emitter>>

(***************************************************************************)
(* get_depends_on: the parameter types of a constructor or bean factory.   *)
(***************************************************************************)
get_depends_on(c, t) ==
    IF t \in Classes THEN c.deps[t] ELSE <<"Any", "Any">>

bean_depends_on(c, t) == c.beanDeps[t]

(***************************************************************************)
(* The resolver.  S is the state a resolution reads and writes:            *)
(* app, hooks, the request's registry reg, the id counter, the created     *)
(* instances, and the outcome (err/at or ret).                             *)
(***************************************************************************)
Raise(S, e, t) == [S EXCEPT !.err = e, !.at = t, !.ret = NoVal]
Return(S, v) == [S EXCEPT !.ret = v]

\* the identity of the next object made from cls: objects made by different
\* invocations are different objects
NewId(S, cls, scope) ==
    Cardinality({v \in S.made : v.cls = cls /\ v.scope = scope}) + 1

\* a constructor invocation that raised: it built nothing
Invoked(S, k, cls, scope) ==
    [S EXCEPT !.made = @ \cup {[k |-> k, cls |-> cls, id |-> NewId(S, cls, scope),
                                args |-> S.args, scope |-> scope]}]

RECURSIVE autowire_module(_, _, _)
RECURSIVE autowire_module_args(_, _, _, _, _)
RECURSIVE autowire(_, _, _)
RECURSIVE autowire_args(_, _, _, _, _)

\* "args.append(...)" and the next turn of the loop over depends_on
module_arg_done(c, S1, deps, i, acc) ==
    IF S1.err # "none" THEN S1
    ELSE autowire_module_args(c, S1, deps, i + 1, Append(acc, S1.ret))

autowire_module_args(c, S, deps, i, acc) ==
    IF i > Len(deps) THEN [S EXCEPT !.args = acc]
    ELSE module_arg_done(c, autowire_module(c, S, deps[i]), deps, i, acc)

\* module_construct without "app[ref] = singleton": the instance is not stored
module_construct_unstored(c, S2, cls) ==
    IF S2.err # "none" THEN S2
    ELSE IF cls \in c.raises \/ cls \notin Classes
    THEN Raise(Invoked(S2, "failed", cls, 0), "constructor", cls)
    ELSE [S2 EXCEPT !.app[cls] = AbsentSlot,
                    !.made = @ \cup {[k |-> "inst", cls |-> cls, id |-> NewId(S2, cls, 0),
                                      args |-> S2.args, scope |-> 0]},
                    !.ret = [k |-> "inst", cls |-> cls, id |-> NewId(S2, cls, 0),
                             args |-> S2.args, scope |-> 0]]

\* module_construct that gives up control after the constructor call and before
\* "app[ref] = singleton": the others run while the slot is still pending
module_construct_suspended(c, S2, cls) ==
    IF S2.err # "none" THEN S2
    ELSE IF cls \in c.raises \/ cls \notin Classes
    THEN Raise(Invoked(S2, "failed", cls, 0), "constructor", cls)
    ELSE [S2 EXCEPT !.made = @ \cup {[k |-> "inst", cls |-> cls, id |-> NewId(S2, cls, 0),
                                      args |-> S2.args, scope |-> 0]},
                    !.ret = [k |-> "inst", cls |-> cls, id |-> NewId(S2, cls, 0),
                             args |-> S2.args, scope |-> 0]]

\* module_construct that takes the pending mark back when the constructor raises,
\* so that a later resolution enters the construction again
module_construct_retry(c, S2, cls) ==
    IF S2.err # "none" THEN S2
    ELSE IF cls \in c.raises \/ cls \notin Classes
    THEN Raise([Invoked(S2, "failed", cls, 0) EXCEPT !.app[cls] = AbsentSlot],
               "constructor", cls)
    ELSE [S2 EXCEPT !.app[cls] = ReadySlot([k |-> "inst", cls |-> cls, id |-> NewId(S2, cls, 0),
                                            args |-> S2.args, scope |-> 0]),
                    !.made = @ \cup {[k |-> "inst", cls |-> cls, id |-> NewId(S2, cls, 0),
                                      args |-> S2.args, scope |-> 0]},
                    !.on_startup = Append(@, [k |-> "inst", cls |-> cls, id |-> NewId(S2, cls, 0),
                                              args |-> S2.args, scope |-> 0]),
                    !.on_cleanup = Append(@, [k |-> "inst", cls |-> cls, id |-> NewId(S2, cls, 0),
                                              args |-> S2.args, scope |-> 0]),
                    !.on_shutdown = Append(@, [k |-> "inst", cls |-> cls, id |-> NewId(S2, cls, 0),
                                               args |-> S2.args, scope |-> 0]),
                    !.ret = [k |-> "inst", cls |-> cls, id |-> NewId(S2, cls, 0),
                             args |-> S2.args, scope |-> 0]]

\* module_construct that puts the hooks at the head of the lists
module_construct_prepend(c, S2, cls) ==
    IF S2.err # "none" THEN S2
    ELSE IF cls \in c.raises \/ cls \notin Classes
    THEN Raise(Invoked(S2, "failed", cls, 0), "constructor", cls)
    ELSE IF ~HasHooks(cls)
    THEN Raise([S2 EXCEPT !.app[cls] = ReadySlot([k |-> "inst", cls |-> cls,
                                                  id |-> NewId(S2, cls, 0),
                                                  args |-> S2.args, scope |-> 0]),
                          !.made = @ \cup {[k |-> "inst", cls |-> cls,
                                            id |-> NewId(S2, cls, 0),
                                            args |-> S2.args, scope |-> 0]}],
               "attribute", cls)
    ELSE [S2 EXCEPT !.app[cls] = ReadySlot([k |-> "inst", cls |-> cls, id |-> NewId(S2, cls, 0),
                                            args |-> S2.args, scope |-> 0]),
                    !.made = @ \cup {[k |-> "inst", cls |-> cls, id |-> NewId(S2, cls, 0),
                                      args |-> S2.args, scope |-> 0]},
                    !.on_startup = <<[k |-> "inst", cls |-> cls, id |-> NewId(S2, cls, 0),
                                      args |-> S2.args, scope |-> 0]>> \o @,
                    !.on_cleanup = <<[k |-> "inst", cls |-> cls, id |-> NewId(S2, cls, 0),
                                      args |-> S2.args, scope |-> 0]>> \o @,
                    !.on_shutdown = <<[k |-> "inst", cls |-> cls, id |-> NewId(S2, cls, 0),
                                       args |-> S2.args, scope |-> 0]>> \o @,
                    !.ret = [k |-> "inst", cls |-> cls, id |-> NewId(S2, cls, 0),
                             args |-> S2.args, scope |-> 0]]

\* "app[ref] = singleton = cls(*args)" and the registration of the hooks, which
\* raises AttributeError on an instance without them
module_construct(c, S2, cls) ==
    IF S2.err # "none" THEN S2
    ELSE IF cls \in c.raises \/ cls \notin Classes
    THEN Raise(Invoked(S2, "failed", cls, 0), "constructor", cls)
    ELSE IF ~HasHooks(cls)
    THEN Raise([S2 EXCEPT !.app[cls] = ReadySlot([k |-> "inst", cls |-> cls,
                                                  id |-> NewId(S2, cls, 0),
                                                  args |-> S2.args, scope |-> 0]),
                          !.made = @ \cup {[k |-> "inst", cls |-> cls,
                                            id |-> NewId(S2, cls, 0),
                                            args |-> S2.args, scope |-> 0]}],
               "attribute", cls)
    ELSE [S2 EXCEPT !.app[cls] = ReadySlot([k |-> "inst", cls |-> cls, id |-> NewId(S2, cls, 0),
                                            args |-> S2.args, scope |-> 0]),
                    !.made = @ \cup {[k |-> "inst", cls |-> cls, id |-> NewId(S2, cls, 0),
                                      args |-> S2.args, scope |-> 0]},
                    !.on_startup = Append(@, [k |-> "inst", cls |-> cls, id |-> NewId(S2, cls, 0),
                                              args |-> S2.args, scope |-> 0]),
                    !.on_cleanup = Append(@, [k |-> "inst", cls |-> cls, id |-> NewId(S2, cls, 0),
                                              args |-> S2.args, scope |-> 0]),
                    !.on_shutdown = Append(@, [k |-> "inst", cls |-> cls, id |-> NewId(S2, cls, 0),
                                               args |-> S2.args, scope |-> 0]),
                    !.ret = [k |-> "inst", cls |-> cls, id |-> NewId(S2, cls, 0),
                             args |-> S2.args, scope |-> 0]]

\* autowire_module without "if app[ref] is None: raise RuntimeError"
autowire_module_unchecked(c, S, cls) ==
    IF S.app[cls].st # "ABSENT"
    THEN Return(S, IF S.app[cls].st = "PENDING" THEN PyNone ELSE S.app[cls].val)
    ELSE IF ~HasFunctionInit(cls)
    THEN Raise([S EXCEPT !.app[cls] = PendingSlot], "not_function", cls)
    ELSE module_construct(c,
            autowire_module_args(c, [S EXCEPT !.app[cls] = PendingSlot],
                                 get_depends_on(c, cls), 1, <<>>),
            cls)

\* autowire_module registering the hooks on every return, cached ones included
autowire_module_reappend(c, S, cls) ==
    IF S.app[cls].st # "ABSENT"
    THEN IF S.app[cls].st = "PENDING"
         THEN Raise(S, "circular", cls)
         ELSE Return([S EXCEPT !.on_startup = Append(@, S.app[cls].val),
                               !.on_cleanup = Append(@, S.app[cls].val),
                               !.on_shutdown = Append(@, S.app[cls].val)],
                     S.app[cls].val)
    ELSE IF ~HasFunctionInit(cls)
    THEN Raise([S EXCEPT !.app[cls] = PendingSlot], "not_function", cls)
    ELSE module_construct(c,
            autowire_module_args(c, [S EXCEPT !.app[cls] = PendingSlot],
                                 get_depends_on(c, cls), 1, <<>>),
            cls)

autowire_module(c, S, cls) ==
    IF S.app[cls].st # "ABSENT"
    THEN IF S.app[cls].st = "PENDING"
         THEN Raise(S, "circular", cls)
         ELSE Return(S, S.app[cls].val)
    ELSE IF ~HasFunctionInit(cls)
    THEN Raise([S EXCEPT !.app[cls] = PendingSlot], "not_function", cls)
    ELSE module_construct(c,
            autowire_module_args(c, [S EXCEPT !.app[cls] = PendingSlot],
                                 get_depends_on(c, cls), 1, <<>>),
            cls)

arg_done(c, S1, deps, i, acc) ==
    IF S1.err # "none" THEN S1
    ELSE autowire_args(c, S1, deps, i + 1, Append(acc, S1.ret))

\* autowire_args without the issubclass(depends_type, Module) branch
autowire_args_nomodule(c, S, deps, i, acc) ==
    IF i > Len(deps) THEN [S EXCEPT !.args = acc]
    ELSE arg_done(c, autowire(c, S, deps[i]), deps, i, acc)

autowire_args(c, S, deps, i, acc) ==
    IF i > Len(deps) THEN [S EXCEPT !.args = acc]
    ELSE IF IsClass(deps[i]) /\ IsModule(deps[i])
    THEN arg_done(c, autowire_module(c, S, deps[i]), deps, i, acc)
    ELSE arg_done(c, autowire(c, S, deps[i]), deps, i, acc)

\* construct without "request[ref] = singleton": the result is not stored
construct_unmemoized(c, S2, cls, is_bean) ==
    IF S2.err # "none" THEN S2
    ELSE IF S2.path = LESSWEB_SCAN_PATH
    THEN [S2 EXCEPT !.reg[cls] = ReadySlot(ScanMark), !.ret = ScanMark]
    ELSE [S2 EXCEPT !.reg[cls] = AbsentSlot,
                    !.made = @ \cup {[k |-> IF is_bean THEN "bean" ELSE "inst", cls |-> cls,
                                      id |-> NewId(S2, cls, S2.rid),
                                      args |-> S2.args, scope |-> S2.rid]},
                    !.ret = [k |-> IF is_bean THEN "bean" ELSE "inst", cls |-> cls,
                             id |-> NewId(S2, cls, S2.rid),
                             args |-> S2.args, scope |-> S2.rid]]

\* the lines of autowire after the loop over depends_on
construct(c, S2, cls, is_bean) ==
    IF S2.err # "none" THEN S2
    ELSE IF S2.path = LESSWEB_SCAN_PATH
    THEN [S2 EXCEPT !.reg[cls] = ReadySlot(ScanMark), !.ret = ScanMark]
    ELSE IF is_bean /\ cls \in c.beanNone
    THEN [S2 EXCEPT !.reg[cls] = PendingSlot,
                    !.made = @ \cup {[k |-> "bean", cls |-> cls, id |-> NewId(S2, cls, S2.rid),
                                      args |-> S2.args, scope |-> S2.rid]},
                    !.ret = PyNone]
    ELSE IF is_bean
    THEN [S2 EXCEPT !.reg[cls] = ReadySlot([k |-> "bean", cls |-> cls, id |-> NewId(S2, cls, S2.rid),
                                            args |-> S2.args, scope |-> S2.rid]),
                    !.made = @ \cup {[k |-> "bean", cls |-> cls, id |-> NewId(S2, cls, S2.rid),
                                      args |-> S2.args, scope |-> S2.rid]},
                    !.ret = [k |-> "bean", cls |-> cls, id |-> NewId(S2, cls, S2.rid),
                             args |-> S2.args, scope |-> S2.rid]]
    ELSE IF cls \in c.raises
    THEN Raise(Invoked(S2, "failed", cls, S2.rid), "constructor", cls)
    ELSE [S2 EXCEPT !.reg[cls] = ReadySlot([k |-> "inst", cls |-> cls, id |-> NewId(S2, cls, S2.rid),
                                            args |-> S2.args, scope |-> S2.rid]),
                    !.made = @ \cup {[k |-> "inst", cls |-> cls, id |-> NewId(S2, cls, S2.rid),
                                      args |-> S2.args, scope |-> S2.rid]},
                    !.ret = [k |-> "inst", cls |-> cls, id |-> NewId(S2, cls, S2.rid),
                             args |-> S2.args, scope |-> S2.rid]]

\* autowire without the assertion 'Can only autowire Middleware or Service'
autowire_unasserted(c, S, cls) ==
    IF ~IsClass(cls) THEN Raise(S, "not_class", cls)
    ELSE IF cls = "Request" THEN Return(S, RequestVal(S.rid))
    ELSE IF S.reg[cls].st # "ABSENT"
    THEN IF S.reg[cls].st = "PENDING"
         THEN Raise(S, "circular", cls)
         ELSE Return(S, S.reg[cls].val)
    ELSE construct(c,
            autowire_args(c, [S EXCEPT !.reg[cls] = PendingSlot],
                          IF cls \in c.beans THEN bean_depends_on(c, cls)
                          ELSE get_depends_on(c, cls),
                          1, <<>>),
            cls, cls \in c.beans)

autowire(c, S, cls) ==
    IF ~IsClass(cls) THEN Raise(S, "not_class", cls)
    ELSE IF cls = "Request" THEN Return(S, RequestVal(S.rid))
    ELSE IF cls \notin c.beans /\ ~IsMiddlewareOrService(cls)
    THEN Raise(S, "not_injectable", cls)
    ELSE IF S.reg[cls].st # "ABSENT"
    THEN IF S.reg[cls].st = "PENDING"
         THEN Raise(S, "circular", cls)
         ELSE Return(S, S.reg[cls].val)
    ELSE construct(c,
            autowire_args(c, [S EXCEPT !.reg[cls] = PendingSlot],
                          IF cls \in c.beans THEN bean_depends_on(c, cls)
                          ELSE get_depends_on(c, cls),
                          1, <<>>),
            cls, cls \in c.beans)

\* the resolver state for a call made by the application (no request)
AppState ==
    [app |-> app, reg |-> EmptyRegistry, rid |-> 0, path |-> "-",
     on_startup |-> on_startup, on_cleanup |-> on_cleanup, on_shutdown |-> on_shutdown,
     made |-> made, returned |-> returned, raised |-> raised,
     err |-> "none", at |-> "-", ret |-> NoVal, args |-> <<>>]

\* ReqState with one registry for all requests
ReqState_shared(r) ==
    [AppState EXCEPT !.reg = req[1].reg, !.rid = r, !.path = req[r].path]

\* the resolver state for a call made while handling request r
ReqState(r) ==
    [AppState EXCEPT !.reg = req[r].reg, !.rid = r, !.path = req[r].path]


(***************************************************************************)
(* Payloads and JSON.  A payload is what push_request_stack is given or    *)
(* what the client sent: bytes (with their text) or a str.                 *)
(***************************************************************************)
Bytes(text) == [bytes |-> TRUE, text |-> text]
Str(text) == [bytes |-> FALSE, text |-> text]

BodyJohn == Bytes("{\"name\":\"John\"}")
BodyJOHN == Bytes("{\"name\":\"JOHN\"}")
BodyAge == Bytes("{\"age\":25}")
BodyBroken == Bytes("{")

JStr(x) == [j |-> "str", s |-> x, n |-> 0, f |-> <<>>]
JInt(x) == [j |-> "int", s |-> "", n |-> x, f |-> <<>>]
JObj(fields) == [j |-> "obj", s |-> "", n |-> 0, f |-> fields]
JBytes(x) == [j |-> "bytes", s |-> x, n |-> 0, f |-> <<>>]
JNone == [j |-> "none", s |-> "", n |-> 0, f |-> <<>>]
JFloat(x) == [j |-> "float", s |-> x, n |-> 0, f |-> <<>>]
JList(items) == [j |-> "list", s |-> "", n |-> 0, f |-> items]
\* inspect.Signature.empty
Empty == [j |-> "empty", s |-> "", n |-> 0, f |-> <<>>]

Ok(v) == [ok |-> TRUE, val |-> v, exc |-> "-", msg |-> "-", keys |-> {}]
Exc(e, m) == [ok |-> FALSE, val |-> JNone, exc |-> e, msg |-> m, keys |-> {}]
\* an exception whose message names keys
ExcKeys(e, m, keys) == [ok |-> FALSE, val |-> JNone, exc |-> e, msg |-> m, keys |-> keys]

\* json.loads / orjson.loads on the texts of the model
loads(text) ==
    CASE text = "{\"name\":\"John\"}" -> Ok(JObj([name |-> JStr("John")]))
      [] text = "{\"name\":\"JOHN\"}" -> Ok(JObj([name |-> JStr("JOHN")]))
      [] text = "{\"age\":25}" -> Ok(JObj([age |-> JInt(25)]))
      [] text = "10" -> Ok(JInt(10))
      [] text = "11" -> Ok(JInt(11))
      [] text = "12" -> Ok(JInt(12))
      [] text = "1" -> Ok(JInt(1))
      [] text = "12.3" -> Ok(JFloat("12.3"))
      [] OTHER -> Exc("JSONDecodeError", "decode")

\* re.match(r'^\w*$', data)
IsWord(text) == text \in {"10", "11", "12", "1", "a", "b", "c", "abc"}

\* parse_csv: the cells of the one line
parse_csv(text) ==
    IF text = "11,12" THEN <<"11", "12">> ELSE <<text>>

(***************************************************************************)
(* Declared types.  UserInput is a record type with the one required       *)
(* field name: str; Profile one with the required fields name: str and     *)
(* nick: Optional[str]; Account has these two and the optional fields      *)
(* tag: Optional[str] and age: int (its __optional_keys__);                *)
(* DictStrInt is dict[str, int], which inspect_type                        *)
(* does not support.  A description is inspect_type's tuple: its length,   *)
(* its first member o and its second member (args of a Union, Literal or   *)
(* list, hints of a record type).                                          *)
(***************************************************************************)
TypeDesc(len, o, args) ==
    [len |-> len, o |-> o, args |-> args, hints |-> <<>>, required |-> {}, optional |-> {}]

inspect_type(tp) ==
    CASE tp = "UserInput" -> Ok([len |-> 2, o |-> "dict", args |-> <<>>,
                                  hints |-> [name |-> "str"],
                                  required |-> {"name"}, optional |-> {}])
      [] tp = "Profile" -> Ok([len |-> 2, o |-> "dict", args |-> <<>>,
                                hints |-> [name |-> "str", nick |-> "Optional[str]"],
                                required |-> {"name", "nick"}, optional |-> {}])
      [] tp = "Account" -> Ok([len |-> 2, o |-> "dict", args |-> <<>>,
                                hints |-> [name |-> "str", nick |-> "Optional[str]",
                                           tag |-> "Optional[str]", age |-> "int"],
                                required |-> {"name", "nick"}, optional |-> {"tag", "age"}])
      [] tp = "DictStrInt" -> Exc("NotImplementedError", "cannot inspect type")
      [] tp = "list[int]" -> Ok(TypeDesc(2, "list", <<"int">>))
      [] tp = "Union[int,list[int]]" -> Ok(TypeDesc(2, "Union", <<"int", "list[int]">>))
      [] tp = "Union[list[int],int]" -> Ok(TypeDesc(2, "Union", <<"list[int]", "int">>))
      [] tp = "Union[str,int]" -> Ok(TypeDesc(2, "Union", <<"str", "int">>))
      [] tp = "Union[int,str]" -> Ok(TypeDesc(2, "Union", <<"int", "str">>))
      [] tp = "Optional[str]" -> Ok(TypeDesc(2, "Union", <<"str", "NoneType">>))
      [] tp = "Literal['a','b']" -> Ok(TypeDesc(2, "Literal", <<JStr("a"), JStr("b")>>))
      [] tp = "Literal[1,2]" -> Ok(TypeDesc(2, "Literal", <<JInt(1), JInt(2)>>))
      [] tp = "Literal" -> Ok(TypeDesc(1, "Literal", <<>>))
      [] OTHER -> Ok(TypeDesc(1, tp, <<>>))

isinstance_safe(data, tp) ==
    \/ data.j = "str" /\ tp = "str"
    \/ data.j = "int" /\ tp = "int"
    \/ data.j = "bytes" /\ tp = "bytes"
    \/ data.j = "none" /\ tp = "NoneType"

is_list_type(tp) == tp = "list[int]"

\* typing_inspect.is_optional_type
is_optional_type(tp) == tp \in {"Optional[str]", "NoneType"}

RECURSIVE typecast(_, _)
RECURSIVE typecast_items(_, _, _, _)
RECURSIVE typecast_union(_, _, _)
RECURSIVE typecast_list(_, _, _, _)

\* a Union branch in which the last arm that succeeds wins
typecast_union_lastwins(data, arms, i) ==
    LET good == {k \in i..Len(arms) : typecast(data, arms[k]).ok}
    IN IF good = {} THEN Exc("TypeCastError", "is not any member")
       ELSE typecast(data, arms[CHOOSE k \in good : \A j \in good : j <= k])

\* "try: return typecast(data, item) / except: continue"
union_arm_done(data, arms, i, r) ==
    IF r.ok THEN r ELSE typecast_union(data, arms, i + 1)

\* the loop of typecast's Union branch over the arms, in declared order
typecast_union(data, arms, i) ==
    IF i > Len(arms) THEN Exc("TypeCastError", "is not any member")
    ELSE union_arm_done(data, arms, i, typecast(data, arms[i]))

\* typecast's Literal branch: "if item == data: return data"
typecast_literal(data, items) ==
    IF \E i \in DOMAIN items : items[i] = data THEN Ok(data)
    ELSE Exc("TypeCastError", "is not member")

list_item_done(items, tp, i, acc, r) ==
    IF ~r.ok THEN r ELSE typecast_list(items, tp, i + 1, Append(acc, r.val))

\* "[typecast(item, type_args) for item in data]"
typecast_list(items, tp, i, acc) ==
    IF i > Len(items) THEN Ok(JList(acc))
    ELSE list_item_done(items, tp, i, acc, typecast(items[i], tp))

items_item_done(data, hints, keys, result, item_key, item) ==
    IF ~item.ok THEN item
    ELSE typecast_items(data, hints, keys \ {item_key},
                        [k \in DOMAIN result \cup {item_key} |->
                            IF k = item_key THEN item.val ELSE result[k]])

\* the loop of typecast's dict branch over data.items()
typecast_items(data, hints, keys, result) ==
    IF keys = {} THEN Ok(result)
    ELSE LET item_key == CHOOSE k \in keys : TRUE
         IN IF item_key \notin DOMAIN hints
            THEN ExcKeys("TypeCastError", "is not member", {item_key})
            ELSE items_item_done(data, hints, keys, result, item_key,
                                 typecast(data[item_key], hints[item_key]))

\* a dict branch that returns the converted items without looking for missing keys
typecast_dict_done_unchecked(td, data, res) ==
    IF ~res.ok THEN res ELSE Ok(JObj(res.val))

\* a dict branch that gives None to every lacked key of optional type, the
\* keys of __optional_keys__ included
typecast_dict_done_fillall(td, data, res) ==
    IF ~res.ok THEN res
    ELSE LET required_keys == IF td.optional # {} THEN DOMAIN td.hints \ td.optional
                              ELSE td.required
             missing_keys == required_keys \ DOMAIN data.f
             none_value_keys == {k \in DOMAIN td.hints \ DOMAIN data.f :
                                    is_optional_type(td.hints[k])}
         IN IF missing_keys \ none_value_keys # {}
            THEN ExcKeys("TypeCastError", "missing required keys",
                         missing_keys \ none_value_keys)
            ELSE Ok(JObj([k \in DOMAIN res.val \cup none_value_keys |->
                             IF k \in none_value_keys THEN JNone ELSE res.val[k]]))

\* the lines of the dict branch after the loop over data.items()
typecast_dict_done(td, data, res) ==
    IF ~res.ok THEN res
    ELSE LET required_keys == IF td.optional # {} THEN DOMAIN td.hints \ td.optional
                              ELSE td.required
             missing_keys == required_keys \ DOMAIN data.f
             none_value_keys == {k \in missing_keys : is_optional_type(td.hints[k])}
         IN IF missing_keys \ none_value_keys # {}
            THEN ExcKeys("TypeCastError", "missing required keys",
                         missing_keys \ none_value_keys)
            ELSE Ok(JObj([k \in DOMAIN res.val \cup none_value_keys |->
                             IF k \in none_value_keys THEN JNone ELSE res.val[k]]))

typecast(data, tp) ==
    LET type_inspect_seed == inspect_type(tp)
    IN IF ~type_inspect_seed.ok THEN type_inspect_seed
       ELSE IF type_inspect_seed.val.o = "Union"
       THEN IF type_inspect_seed.val.len # 2 \/ type_inspect_seed.val.args = <<>>
            THEN Exc("TypeCastError", "is empty")
            ELSE typecast_union(data, type_inspect_seed.val.args, 1)
       ELSE IF type_inspect_seed.val.o = "Literal"
       THEN IF type_inspect_seed.val.len # 2 \/ type_inspect_seed.val.args = <<>>
            THEN Exc("TypeCastError", "is empty")
            ELSE typecast_literal(data, type_inspect_seed.val.args)
       ELSE IF isinstance_safe(data, tp) THEN Ok(data)
       ELSE IF data.j = "str"
       THEN IF is_list_type(tp)
            THEN typecast(JList([i \in DOMAIN parse_csv(data.s) |-> JStr(parse_csv(data.s)[i])]),
                          tp)
            ELSE IF ~loads(data.s).ok
            THEN IF IsWord(data.s) THEN Exc("TypeCastError", "is not an instance")
                 ELSE loads(data.s)
            ELSE typecast(loads(data.s).val, tp)
       ELSE IF type_inspect_seed.val.len # 2
       THEN Exc("TypeCastError", "is not instance")
       ELSE IF type_inspect_seed.val.o = "list"
       THEN IF data.j # "list" THEN Exc("AssertionError", "isinstance(data, list)")
            ELSE typecast_list(data.f, type_inspect_seed.val.args[1], 1, <<>>)
       ELSE IF data.j # "obj" THEN Exc("AssertionError", "isinstance(data, dict)")
       ELSE typecast_dict_done(type_inspect_seed.val, data,
                               typecast_items(data.f, type_inspect_seed.val.hints,
                                              DOMAIN data.f, <<>>))


(***************************************************************************)
(* TypeCast.validate_json / TypeCast.validate_query: the two entry points  *)
(* of the coercion engine used by autowire_handler.  A client-caused       *)
(* failure is a ValueError, an unsupported type a NotImplementedError.     *)
(***************************************************************************)
validate_json(data, tp) ==
    LET seed == inspect_type(tp)
        tree == loads(data.text)
    IN IF ~seed.ok THEN Exc("NotImplementedError", "cannot inspect type")
       ELSE IF ~tree.ok THEN Exc("ValueError", "invalid json")
       ELSE IF seed.val.o = "dict"
       THEN IF tree.val.j # "obj" THEN Exc("ValueError", "not an object")
            ELSE IF ~(DOMAIN tree.val.f \subseteq DOMAIN seed.val.hints)
            THEN Exc("ValueError", "unknown key")
            ELSE IF ~(seed.val.required \subseteq DOMAIN tree.val.f)
            THEN Exc("ValueError", "missing required keys")
            ELSE Ok(tree.val)
       ELSE IF isinstance_safe(tree.val, tp) THEN Ok(tree.val)
       ELSE Exc("ValueError", "wrong type")

validate_query(text, tp) ==
    LET seed == inspect_type(tp)
    IN IF ~seed.ok THEN Exc("NotImplementedError", "cannot inspect type")
       ELSE IF tp = "str" THEN Ok(JStr(text))
       ELSE IF tp = "int" /\ text = "10" THEN Ok(JInt(10))
       ELSE Exc("ValueError", "invalid literal")

(***************************************************************************)
(* Handler signatures (func_arg_spec): for every parameter its name,       *)
(* declared type, default, kind, and the DefaultFactory of its metadata.   *)
(***************************************************************************)
POSITIONAL_ONLY == 0
POSITIONAL_OR_KEYWORD == 1
VAR_POSITIONAL == 2
KEYWORD_ONLY == 3
VAR_KEYWORD == 4

Param(name, type, kind) ==
    [name |-> name, type |-> type, kind |-> kind, default |-> Empty, factory |-> Empty]
Body(name, type) == Param(name, type, POSITIONAL_ONLY)
Query(name, type, default, factory) ==
    [name |-> name, type |-> type, kind |-> KEYWORD_ONLY, default |-> default, factory |-> factory]
Inject(name, type) == Param(name, type, POSITIONAL_OR_KEYWORD)

spawn_default_factory(p) == p.factory

(***************************************************************************)
(* Outcome of a request: none yet, a response, or the exception that       *)
(* left the handler.  An HTTPBadRequest is a 4xx response; any other       *)
(* exception reaches the server as a 500.                                  *)
(***************************************************************************)
NoOutcome == [status |-> "none", exc |-> "-", msg |-> "-", param |-> "-"]
Failure(e, m, n) ==
    [status |-> IF e = "HTTPBadRequest" THEN "4xx" ELSE "5xx",
     exc |-> e, msg |-> m, param |-> n]
Success(kind) == [status |-> "2xx", exc |-> "-", msg |-> kind, param |-> "-"]

\* the exception class of a resolver error
ResolverExc(e) ==
    IF e = "circular" THEN "RuntimeError"
    ELSE IF e = "constructor" THEN "Exception"
    ELSE IF e = "attribute" THEN "AttributeError"
    ELSE "AssertionError"

(***************************************************************************)
(* The request data stack.                                                 *)
(***************************************************************************)
\* get_request_stack that makes a new list on every call
get_request_stack_fresh(q) ==
    [q EXCEPT !.stack_key = TRUE, !.stack = <<>>, !.stack_gen = @ + 1]

get_request_stack(q) ==
    IF q.stack_key /\ q.stack # <<>> THEN q
    ELSE [q EXCEPT !.stack_key = TRUE, !.stack = <<>>, !.stack_gen = @ + 1]

\* returns the request and whether the push raised TypeError
push_request_stack(q, value) ==
    IF ~value.bytes THEN [q |-> q, ok |-> FALSE]
    ELSE LET q1 == get_request_stack(q)
         IN [q |-> [q1 EXCEPT !.stack = Append(@, value),
                              !.pushed = Append(@, value)],
             ok |-> TRUE]

NewRequestRec(r) ==
    [rid |-> r, pc |-> "idle", path |-> "-", route |-> "-", body |-> Bytes(""),
     match_info |-> <<>>, query |-> <<>>,
     reg |-> EmptyRegistry, mw |-> 0,
     stack_key |-> FALSE, stack |-> <<>>, stack_gen |-> 0, pushed |-> <<>>,
     reads |-> 0, has_read_request_body |-> FALSE,
     args |-> <<>>, kwargs |-> <<>>, bound |-> <<>>, casts |-> <<>>,
     binding |-> FALSE, invoked |-> 0, result |-> "-", out |-> NoOutcome]

(***************************************************************************)
(* ioc.py autowire_handler.aio_route_endpoint: binding of the parameters   *)
(* in declaration order.  X is [S |-> resolver state, q |-> request].      *)
(***************************************************************************)
\* a binder that swallows the failure of a parameter and goes on
BindFail_swallowed(X, e, m, n) == X

BindFail(X, e, m, n) == [X EXCEPT !.q.out = Failure(e, m, n)]

\* bind_body taking request_stack.pop(0): the oldest payload first
bind_body_fifo(X, p) ==
    LET q1 == get_request_stack(X.q)
        raw == q1.args = <<>> /\ q1.stack = <<>>
    IN IF ~raw /\ q1.stack = <<>>
       THEN BindFail([X EXCEPT !.q = q1], "TypeError", "request stack is empty for param", p.name)
       ELSE LET request_data == IF raw THEN q1.body ELSE q1.stack[1]
                q2 == IF raw THEN [q1 EXCEPT !.reads = @ + 1]
                      ELSE [q1 EXCEPT !.stack = Tail(@)]
                X2 == [X EXCEPT !.q = q2]
            IN [X2 EXCEPT !.q.args = Append(@, JBytes(request_data.text)),
                          !.q.bound = Append(@, [name |-> p.name,
                                                 src |-> IF raw THEN "raw" ELSE "stack",
                                                 idx |-> IF raw THEN 0 ELSE 1,
                                                 data |-> request_data])]

\* bind_body without the "elif not request_stack: raise TypeError" branch:
\* an empty stack always falls back to the raw body
bind_body_rawagain(X, p) ==
    LET q1 == get_request_stack(X.q)
        raw == q1.stack = <<>>
        request_data == IF raw THEN q1.body ELSE q1.stack[Len(q1.stack)]
        q2 == IF raw THEN [q1 EXCEPT !.reads = @ + 1]
              ELSE [q1 EXCEPT !.stack = SubSeq(@, 1, Len(@) - 1)]
        X2 == [X EXCEPT !.q = q2]
    IN [X2 EXCEPT !.q.args = Append(@, JBytes(request_data.text)),
                  !.q.bound = Append(@, [name |-> p.name,
                                         src |-> IF raw THEN "raw" ELSE "stack",
                                         idx |-> IF raw THEN 0 ELSE Len(q1.stack),
                                         data |-> request_data])]

bind_body(X, p) ==
    LET q1 == get_request_stack(X.q)
        raw == q1.args = <<>> /\ q1.stack = <<>>
    IN IF ~raw /\ q1.stack = <<>>
       THEN BindFail([X EXCEPT !.q = q1], "TypeError", "request stack is empty for param", p.name)
       ELSE LET request_data == IF raw THEN q1.body ELSE q1.stack[Len(q1.stack)]
                q2 == IF raw THEN [q1 EXCEPT !.reads = @ + 1]
                      ELSE [q1 EXCEPT !.stack = SubSeq(@, 1, Len(@) - 1)]
                src == IF raw THEN "raw" ELSE "stack"
                idx == IF raw THEN 0 ELSE Len(q1.stack)
                X2 == [X EXCEPT !.q = q2]
            IN IF p.type = "bytes"
               THEN IF ~request_data.bytes
                    THEN BindFail(X2, "TypeError", "positional only param must be bytes", p.name)
                    ELSE [X2 EXCEPT !.q.args = Append(@, JBytes(request_data.text)),
                                    !.q.bound = Append(@, [name |-> p.name, src |-> src,
                                                           idx |-> idx, data |-> request_data])]
               ELSE LET parsed_data == validate_json(request_data, p.type)
                        X3 == [X2 EXCEPT !.q.casts = Append(@, [name |-> p.name, kind |-> p.kind,
                                                                exc |-> parsed_data.exc])]
                    IN IF parsed_data.ok
                       THEN [X3 EXCEPT !.q.args = Append(@, parsed_data.val),
                                       !.q.bound = Append(@, [name |-> p.name, src |-> src,
                                                              idx |-> idx, data |-> request_data])]
                       ELSE IF parsed_data.exc = "ValueError"
                       THEN BindFail(X3, "HTTPBadRequest", "invalid request body", p.name)
                       ELSE BindFail(X3, parsed_data.exc, parsed_data.msg, p.name)

SetKw(kwargs, name, v) ==
    [k \in DOMAIN kwargs \cup {name} |-> IF k = name THEN v ELSE kwargs[k]]

\* bind_query asking the DefaultFactory before the literal default
bind_query_factoryfirst(X, p) ==
    LET q == X.q
        query_value == IF p.name \in DOMAIN q.match_info THEN q.match_info[p.name]
                       ELSE IF p.name \in DOMAIN q.query THEN q.query[p.name]
                       ELSE "None"
    IN IF query_value = "None"
       THEN LET default == IF spawn_default_factory(p) # Empty THEN spawn_default_factory(p)
                           ELSE p.default
            IN IF default = Empty
               THEN BindFail(X, "HTTPBadRequest", "missing required parameter", p.name)
               ELSE [X EXCEPT !.q.kwargs = SetKw(@, p.name, default)]
       ELSE LET v == validate_query(query_value, p.type)
            IN IF v.ok THEN [X EXCEPT !.q.kwargs = SetKw(@, p.name, v.val)]
               ELSE BindFail(X, "HTTPBadRequest", "invalid parameter", p.name)

bind_query(X, p) ==
    LET q == X.q
        query_value == IF p.name \in DOMAIN q.match_info THEN q.match_info[p.name]
                       ELSE IF p.name \in DOMAIN q.query THEN q.query[p.name]
                       ELSE "None"
    IN IF query_value = "None"
       THEN LET default == IF p.default = Empty THEN spawn_default_factory(p)
                           ELSE p.default
            IN IF default = Empty
               THEN BindFail(X, "HTTPBadRequest", "missing required parameter", p.name)
               ELSE [X EXCEPT !.q.kwargs = SetKw(@, p.name, default)]
       ELSE LET v == validate_query(query_value, p.type)
                X1 == [X EXCEPT !.q.casts = Append(@, [name |-> p.name, kind |-> p.kind,
                                                       exc |-> v.exc])]
            IN IF v.ok THEN [X1 EXCEPT !.q.kwargs = SetKw(@, p.name, v.val)]
               ELSE BindFail(X1, "HTTPBadRequest", "invalid parameter", p.name)

bind_inject(c, X, p) ==
    LET S0 == [X.S EXCEPT !.reg = X.q.reg]
        S1 == IF IsClass(p.type) /\ IsModule(p.type)
              THEN autowire_module(c, S0, p.type)
              ELSE autowire(c, S0, p.type)
        X1 == [X EXCEPT !.S = [S1 EXCEPT !.err = "none", !.at = "-"], !.q.reg = S1.reg]
    IN IF S1.err # "none"
       THEN [X1 EXCEPT !.q.out = Failure(ResolverExc(S1.err), S1.err, S1.at),
                       !.S.raised = @ \cup {[rid |-> X.q.rid, cls |-> p.type, err |-> S1.err,
                                             at |-> S1.at, via |-> "handler"]}]
       ELSE [X1 EXCEPT !.q.kwargs = SetKw(@, p.name, S1.ret),
                       !.S.returned = @ \cup {[rid |-> X.q.rid, cls |-> p.type, val |-> S1.ret,
                                               via |-> "handler"]}]

RECURSIVE bind_params(_, _, _, _)
\* bind_params choosing the branch by the declared type: a parameter of a
\* Module, Service or Middleware type is injected whatever its kind
bind_params_bytype(c, X, params, i) ==
    IF i > Len(params) \/ X.q.out # NoOutcome THEN X
    ELSE LET p == params[i]
             X1 == IF IsModule(p.type) \/ IsMiddlewareOrService(p.type) THEN bind_inject(c, X, p)
                   ELSE IF p.kind = POSITIONAL_ONLY THEN bind_body(X, p)
                   ELSE IF p.kind = KEYWORD_ONLY THEN bind_query(X, p)
                   ELSE bind_inject(c, X, p)
         IN bind_params(c, X1, params, i + 1)

bind_params(c, X, params, i) ==
    IF i > Len(params) \/ X.q.out # NoOutcome THEN X
    ELSE LET p == params[i]
             X1 == IF p.kind = POSITIONAL_ONLY THEN bind_body(X, p)
                   ELSE IF p.kind = KEYWORD_ONLY THEN bind_query(X, p)
                   ELSE bind_inject(c, X, p)
         IN bind_params(c, X1, params, i + 1)


(***************************************************************************)
(* bridge.py: autowire (the lookup the router's binder uses for a          *)
(* parameter that is neither positional-only nor keyword-only) and         *)
(* make_router.aio_endpoint.  None of the model's classes is decorated     *)
(* with @service or @config.                                               *)
(***************************************************************************)
bridge_autowire(X, p) ==
    IF X.q.reg[p.type].st # "ABSENT"
    THEN [X EXCEPT !.q.kwargs = SetKw(@, p.name, X.q.reg[p.type].val)]
    ELSE IF X.S.app[p.type].st # "ABSENT"
    THEN [X EXCEPT !.q.kwargs = SetKw(@, p.name, X.S.app[p.type].val)]
    ELSE IF p.type = "Request"
    THEN [X EXCEPT !.q.kwargs = SetKw(@, p.name, RequestVal(X.q.rid))]
    ELSE BindFail(X, "TypeError", "cannot autowire class which is not a service", p.name)

\* router_body without the has_read_request_body flag: an empty stack always
\* falls back to reading the request body
router_body_noflag(X, p) ==
    LET q == X.q
        popped == q.stack_key /\ q.stack # <<>>
        request_text == IF popped THEN q.stack[Len(q.stack)] ELSE q.body
        q2 == IF popped THEN [q EXCEPT !.stack = SubSeq(@, 1, Len(@) - 1)]
              ELSE [q EXCEPT !.reads = @ + 1]
        X2 == [X EXCEPT !.q = q2]
    IN [X2 EXCEPT !.q.args = Append(@, JBytes(request_text.text)),
                  !.q.bound = Append(@, [name |-> p.name,
                                         src |-> IF popped THEN "stack" ELSE "raw",
                                         idx |-> IF popped THEN Len(q.stack) ELSE 0,
                                         data |-> request_text])]

router_body(X, p) ==
    LET q == X.q
        popped == q.stack_key /\ q.stack # <<>>
    IN IF ~popped /\ q.has_read_request_body
       THEN BindFail(X, "TypeError", "EOF when reading request body", p.name)
       ELSE LET request_text == IF popped THEN q.stack[Len(q.stack)] ELSE q.body
                q2 == IF popped THEN [q EXCEPT !.stack = SubSeq(@, 1, Len(@) - 1)]
                      ELSE [q EXCEPT !.reads = @ + 1, !.has_read_request_body = TRUE]
                X2 == [X EXCEPT !.q = q2]
                data == loads(request_text.text)
            IN IF ~data.ok
               THEN BindFail(X2, "HTTPBadRequest", "request body raise JSONDecodeError", p.name)
               ELSE LET v == typecast(data.val, p.type)
                    IN IF ~v.ok
                       THEN BindFail(X2, "HTTPBadRequest", "request body decoding error", p.name)
                       ELSE [X2 EXCEPT !.q.args = Append(@, v.val),
                                       !.q.bound = Append(@, [name |-> p.name,
                                                      src |-> IF popped THEN "stack" ELSE "raw",
                                                      idx |-> IF popped THEN Len(q.stack) ELSE 0,
                                                      data |-> request_text])]

router_query(X, p) ==
    LET q == X.q
        chosen_value == IF p.name \in DOMAIN q.match_info THEN q.match_info[p.name]
                        ELSE IF p.name \in DOMAIN q.query THEN q.query[p.name]
                        ELSE "None"
    IN IF chosen_value = "None"
       THEN IF p.default # JNone
            THEN BindFail(X, "HTTPBadRequest", "missing required parameter", p.name)
            ELSE [X EXCEPT !.q.kwargs = SetKw(@, p.name, JNone)]
       ELSE LET v == typecast(JStr(chosen_value), p.type)
            IN IF v.ok THEN [X EXCEPT !.q.kwargs = SetKw(@, p.name, v.val)]
               ELSE BindFail(X, "HTTPBadRequest", "invalid parameter", p.name)

RECURSIVE router_params(_, _, _)
router_params(X, params, i) ==
    IF i > Len(params) \/ X.q.out # NoOutcome THEN X
    ELSE LET p == params[i]
             X1 == IF p.kind = POSITIONAL_ONLY THEN router_body(X, p)
                   ELSE IF p.kind = KEYWORD_ONLY THEN router_query(X, p)
                   ELSE bridge_autowire(X, p)
         IN router_params(X1, params, i + 1)

(***************************************************************************)
(* The response built from the handler's result.                           *)
(***************************************************************************)
Results == {"StreamResponse", "dict", "None", "str"}

\* autowire_handler: the lines after "result = await sp_endpoint(...)"
ioc_response(route, result) ==
    IF result = "StreamResponse" THEN Success("stream")
    ELSE IF route.response_type = "UserInput"
    THEN IF result = "dict" THEN Success("json")
         ELSE Failure("ValidationError", "model_validate", "-")
    ELSE IF result = "dict" THEN Success("json")
    ELSE IF result = "None" THEN Success("204")
    ELSE Success(IF route.text_meta = "" THEN "text/plain" ELSE route.text_meta)

\* make_router.aio_endpoint: the lines after "result = await sp_endpoint(...)"
router_response(route, result) ==
    IF result = "dict" THEN Success("json") ELSE Success(result)


(***************************************************************************)
(* What a user middleware's on_request pushes before it calls the          *)
(* handler: a script over the raw body (tests/e2e/test_request_stack.py    *)
(* pushes the raw body and then a copy with the name in upper case).       *)
(***************************************************************************)
ScriptItems == {"raw", "upper", "str"}

upper(body) ==
    IF body \in {BodyJohn, BodyJOHN} THEN Ok(BodyJOHN)
    ELSE Exc("JSONDecodeError", "decode")

script_value(item, body) ==
    CASE item = "raw" -> Ok(body)
      [] item = "upper" -> upper(body)
      [] OTHER -> Ok(Str("name"))

RECURSIVE on_request(_, _, _)
\* runs the script; returns the request, with out set if the middleware raised
on_request(q, script, i) ==
    IF i > Len(script) THEN q
    ELSE LET v == script_value(script[i], q.body)
         IN IF ~v.ok THEN [q EXCEPT !.out = Failure(v.exc, v.msg, "-")]
            ELSE LET p == push_request_stack(q, v.val)
                 IN IF ~p.ok THEN [q EXCEPT !.out = Failure("TypeError", "value must be bytes", "-")]
                    ELSE on_request(p.q, script, i + 1)

IsMiddleware(t) == t = "MidB"

(***************************************************************************)
(* The applications of the model.  An application is its classes'          *)
(* constructor signatures (deps), its registered bean factories with       *)
(* their signatures, the classes whose constructor raises, app.middlewares,*)
(* what its middleware pushes, its route, the types it resolves with       *)
(* autowire_module at startup, and the inputs its clients send.            *)
(***************************************************************************)
Route(name, impl, params) ==
    [name |-> name, impl |-> impl, params |-> params, response_type |-> "Any", text_meta |-> ""]

NoQuery == [match_info |-> [x \in {} |-> "None"], query |-> [x \in {} |-> "None"]]
Query10 == [match_info |-> [x \in {} |-> "None"], query |-> [q |-> "10"]]
QueryAbc == [match_info |-> [x \in {} |-> "None"], query |-> [q |-> "abc"]]
QueryPath == [match_info |-> [q |-> "10"], query |-> [q |-> "abc"]]

NoDeps == [t \in Classes |-> <<>>]

Graph(a, b, s, m) ==
    [t \in Classes |-> CASE t = "ModA" -> a [] t = "ModB" -> b [] t = "SvcA" -> s
                         [] t = "MidB" -> m [] OTHER -> <<>>]

BaseApp ==
    [deps |-> Graph(<<"ModB">>, <<>>, <<"ModA", "Request">>, <<"SvcA">>),
     beans |-> {}, beanDeps |-> NoDeps, beanNone |-> {}, raises |-> {},
     middlewares |-> <<"MidB">>, script |-> <<>>,
     route |-> Route("get_svc", "ioc", <<Inject("svc", "SvcA"), Inject("mod", "ModA"),
                                         Inject("again", "SvcA")>>),
     startup |-> {"ModA"}, paths |-> Paths, bodies |-> {BodyJohn}, queries |-> {NoQuery},
     results |-> {"dict"}]

\* the routes whose parameters are all injected
InjectRoutes ==
    {Route("get_svc", "ioc", <<Inject("svc", "SvcA"), Inject("mod", "ModA"),
                               Inject("again", "SvcA")>>),
     Route("get_conn", "ioc", <<Inject("conn", "Conn"), Inject("request", "Request"),
                                Inject("conn2", "Conn")>>),
     Route("get_plain", "ioc", <<Inject("mid", "MidB"), Inject("plain", "Plain")>>),
     Route("get_any", "ioc", <<Inject("mod", "ModB"), Param("args", "Any", VAR_POSITIONAL)>>),
     Route("get_alias", "ioc", <<Inject("ids", "Alias")>>),
     Route("get_old", "router", <<Inject("request", "Request"), Inject("svc", "SvcA"),
                                  Query("q", "int", JNone, Empty)>>)}

Graphs ==
    {Graph(a, b, s, m) :
        a \in {<<>>, <<"ModB">>},
        b \in {<<>>, <<"ModA">>, <<"Plain">>},
        s \in {<<"MidB">>, <<"ModA", "Request">>, <<"Conn">>},
        m \in {<<>>, <<"SvcA">>, <<"SvcA", "ModB">>}}

BeanMaps ==
    {[beans |-> {}, beanDeps |-> NoDeps, beanNone |-> {}],
     [beans |-> {"Conn"}, beanDeps |-> [NoDeps EXCEPT !["Conn"] = <<"SvcA", "ModA">>],
      beanNone |-> {}],
     [beans |-> {"Conn", "ModA"}, beanDeps |-> [NoDeps EXCEPT !["Conn"] = <<"Conn">>],
      beanNone |-> {}],
     [beans |-> {"Conn"}, beanDeps |-> NoDeps, beanNone |-> {"Conn"}]}

ResolverApps ==
    {[BaseApp EXCEPT !.deps = g, !.beans = bm.beans, !.beanDeps = bm.beanDeps,
                      !.beanNone = bm.beanNone] :
        g \in Graphs, bm \in BeanMaps}
    \cup {[BaseApp EXCEPT !.route = rt, !.beans = bm.beans, !.beanDeps = bm.beanDeps,
                          !.beanNone = bm.beanNone, !.middlewares = mws] :
        rt \in InjectRoutes, bm \in BeanMaps, mws \in {<<>>, <<"MidB">>}}
    \cup {[BaseApp EXCEPT !.raises = rs, !.startup = st] :
        rs \in {{"ModB"}, {"SvcA"}}, st \in {{"ModA"}, {"ModB", "Plain"}}}
    \cup {[BaseApp EXCEPT !.middlewares = mws] :
        mws \in {<<"SvcA">>, <<"ModA">>, <<"Plain">>, <<"MidB", "MidB">>}}
    \cup {[BaseApp EXCEPT !.middlewares = <<"MidB", "ModA">>, !.beans = bm.beans,
                          !.beanDeps = bm.beanDeps, !.beanNone = bm.beanNone] :
        bm \in BeanMaps}

\* the scripts of at most MaxPush pushes
RECURSIVE Scripts(_)
Scripts(n) ==
    IF n = 0 THEN {<<>>}
    ELSE Scripts(n - 1) \cup {Append(sc, item) : sc \in Scripts(n - 1), item \in ScriptItems}

\* the parameter lists of the routes that read the body
BodyParams ==
    {<<Body("vo", "UserInput")>>,
     <<Body("real_vo", "UserInput"), Body("raw_vo", "UserInput")>>,
     <<Body("real_vo", "UserInput"), Body("raw_vo", "UserInput"), Body("eof_vo", "UserInput")>>,
     <<Body("data", "bytes"), Body("vo", "UserInput")>>,
     <<Body("vo", "DictStrInt")>>,
     <<Inject("svc", "SvcA"), Body("vo", "UserInput"), Inject("mod", "ModA"),
       Body("raw_vo", "UserInput")>>}

\* the parameter lists of the routes that read the query string or the path
QueryParams ==
    {<<Query("q", "int", Empty, Empty)>>,
     <<Query("q", "int", JInt(3), Empty)>>,
     <<Query("q", "int", Empty, JInt(7))>>,
     <<Query("q", "int", JInt(3), JInt(7))>>,
     <<Query("q", "int", JNone, Empty)>>,
     <<Query("q", "DictStrInt", Empty, Empty)>>,
     <<Query("q", "str", Empty, Empty), Inject("svc", "SvcA")>>}

\* parameter lists whose declared types do not suit the parameters' kinds
OddParams ==
    {<<Body("svc", "SvcA")>>,
     <<Query("q", "ModA", Empty, Empty)>>,
     <<Inject("vo", "UserInput")>>,
     <<Inject("svc", "SvcA"), Param("d", "bytes", VAR_POSITIONAL)>>,
     <<Inject("mod", "ModA"), Param("g", "int", VAR_KEYWORD)>>}

BinderApps ==
    {[BaseApp EXCEPT !.script = sc, !.route = Route("post_user", impl, ps),
                     !.paths = {"/user"}, !.bodies = {BodyJohn}] :
        sc \in Scripts(MaxPush), impl \in {"ioc", "router"}, ps \in BodyParams}
    \cup {[BaseApp EXCEPT !.script = sc, !.route = Route("post_user", impl, ps),
                          !.paths = {"/user"}, !.bodies = {BodyAge, BodyBroken}] :
        sc \in Scripts(1), impl \in {"ioc", "router"}, ps \in BodyParams}
    \cup {[BaseApp EXCEPT !.route = Route("get_user", impl, ps), !.paths = {"/user"},
                          !.queries = {NoQuery, Query10, QueryAbc, QueryPath}] :
        impl \in {"ioc", "router"}, ps \in QueryParams}
    \cup {[BaseApp EXCEPT !.route = Route("odd", "ioc", ps), !.paths = {"/user"},
                          !.queries = {NoQuery, Query10}] :
        ps \in OddParams}
    \cup {[BaseApp EXCEPT !.route = [Route("get_result", impl, <<>>) EXCEPT
                                        !.response_type = rt, !.text_meta = tm],
                          !.middlewares = <<>>, !.paths = {"/user"}, !.results = Results] :
        impl \in {"ioc", "router"}, rt \in {"Any", "UserInput"}, tm \in {"", "text/html"}}

(***************************************************************************)
(* Actions.                                                                *)
(***************************************************************************)
Commit(S) ==
    /\ app' = S.app
    /\ on_startup' = S.on_startup
    /\ on_cleanup' = S.on_cleanup
    /\ on_shutdown' = S.on_shutdown
    /\ made' = S.made
    /\ returned' = S.returned
    /\ raised' = S.raised

\* the application resolves a type with autowire_module(app, t)
CallAutowireModule(t) ==
    /\ appCalls < MaxAppCalls
    /\ t \in cfg.startup
    /\ LET S1 == autowire_module(cfg, AppState, t)
           S2 == IF S1.err # "none"
                 THEN [S1 EXCEPT !.raised = @ \cup {[rid |-> 0, cls |-> t, err |-> S1.err,
                                                     at |-> S1.at, via |-> "autowire_module"]}]
                 ELSE [S1 EXCEPT !.returned = @ \cup {[rid |-> 0, cls |-> t, val |-> S1.ret,
                                                       via |-> "autowire_module"]}]
       IN Commit(S2)
    /\ appCalls' = appCalls + 1
    /\ UNCHANGED <<cfg, casted, emitter, req>>

\* a request arrives; requests are numbered in order of arrival
Arrive(r, path, body, query) ==
    /\ req[r].pc = "idle"
    /\ \A r2 \in ReqIds : r2 < r => req[r2].pc # "idle"
    /\ path \in cfg.paths /\ body \in cfg.bodies /\ query \in cfg.queries
    /\ req' = [req EXCEPT ![r] = [@ EXCEPT !.pc = "mw", !.path = path, !.body = body,
                                           !.match_info = query.match_info,
                                           !.query = query.query]]
    /\ UNCHANGED <<cfg, casted, emitter, app, on_startup, on_cleanup, on_shutdown, made,
                   returned, raised, appCalls>>

\* make_middleware.middleware_func of the next middleware of app.middlewares
RunMiddleware(r) ==
    /\ req[r].pc = "mw"
    /\ req[r].mw < Len(cfg.middlewares)
    /\ LET cls == cfg.middlewares[req[r].mw + 1]
           S1 == autowire(cfg, ReqState(r), cls)
           q1 == [req[r] EXCEPT !.reg = S1.reg, !.mw = @ + 1]
       IN IF S1.err # "none"
          THEN /\ Commit([S1 EXCEPT !.raised = @ \cup {[rid |-> r, cls |-> cls, err |-> S1.err,
                                                        at |-> S1.at, via |-> "autowire"]}])
               /\ req' = [req EXCEPT ![r] = [q1 EXCEPT !.pc = "done",
                               !.out = Failure(ResolverExc(S1.err), S1.err, S1.at)]]
          ELSE /\ Commit([S1 EXCEPT !.returned = @ \cup {[rid |-> r, cls |-> cls, val |-> S1.ret,
                                                          via |-> "autowire"]}])
               /\ IF S1.ret.k # "inst" \/ ~IsMiddleware(cls)
                  THEN req' = [req EXCEPT ![r] = [q1 EXCEPT !.pc = "done",
                               !.out = Failure("AttributeError", "on_request", "-")]]
                  ELSE LET q2 == on_request(q1, cfg.script, 1)
                       IN req' = [req EXCEPT ![r] =
                                     IF q2.out # NoOutcome THEN [q2 EXCEPT !.pc = "done"]
                                     ELSE q2]
    /\ UNCHANGED <<cfg, casted, emitter, appCalls>>

\* ioc.py aio_route_endpoint up to "await sp_endpoint(*args, **kwargs)"
Handle(r) ==
    /\ req[r].pc = "mw"
    /\ req[r].mw = Len(cfg.middlewares)
    /\ cfg.route.impl = "ioc"
    /\ LET X == bind_params(cfg, [S |-> ReqState(r), q |-> [req[r] EXCEPT !.binding = TRUE]],
                             cfg.route.params, 1)
       IN /\ Commit(X.S)
          /\ req' = [req EXCEPT ![r] =
                        IF X.q.out # NoOutcome THEN [X.q EXCEPT !.pc = "done"]
                        ELSE [X.q EXCEPT !.pc = "awaiting", !.invoked = @ + 1]]
    /\ UNCHANGED <<cfg, casted, emitter, appCalls>>

\* the user handler returns result; aio_route_endpoint builds the response
Finish(r, result) ==
    /\ req[r].pc = "awaiting"
    /\ cfg.route.impl = "ioc"
    /\ result \in cfg.results
    /\ req' = [req EXCEPT ![r] = [@ EXCEPT !.pc = "done", !.result = result,
                                           !.out = ioc_response(cfg.route, result)]]
    /\ UNCHANGED <<cfg, casted, emitter, app, on_startup, on_cleanup, on_shutdown, made,
                   returned, raised, appCalls>>

\* bridge.py aio_endpoint up to "await sp_endpoint(*args, **kwargs)"
RouterHandle(r) ==
    /\ req[r].pc = "mw"
    /\ req[r].mw = Len(cfg.middlewares)
    /\ cfg.route.impl = "router"
    /\ LET X == router_params([S |-> ReqState(r), q |-> [req[r] EXCEPT !.binding = TRUE]],
                               cfg.route.params, 1)
       IN req' = [req EXCEPT ![r] =
                     IF X.q.out # NoOutcome THEN [X.q EXCEPT !.pc = "done"]
                     ELSE [X.q EXCEPT !.pc = "awaiting", !.invoked = @ + 1]]
    /\ UNCHANGED <<cfg, casted, emitter, app, on_startup, on_cleanup, on_shutdown, made,
                   returned, raised, appCalls>>

\* the user handler returns result; aio_endpoint builds the response
RouterFinish(r, result) ==
    /\ req[r].pc = "awaiting"
    /\ cfg.route.impl = "router"
    /\ result \in cfg.results
    /\ req' = [req EXCEPT ![r] = [@ EXCEPT !.pc = "done", !.result = result,
                                           !.out = router_response(cfg.route, result)]]
    /\ UNCHANGED <<cfg, casted, emitter, app, on_startup, on_cleanup, on_shutdown, made,
                   returned, raised, appCalls>>

Next ==
    \/ \E t \in Types : CallAutowireModule(t)
    \/ \E r \in ReqIds, path \in Paths, body \in cfg.bodies, query \in cfg.queries :
          Arrive(r, path, body, query)
    \/ \E r \in ReqIds : RunMiddleware(r)
    \/ \E r \in ReqIds : Handle(r)
    \/ \E r \in ReqIds, result \in Results : Finish(r, result)
    \/ \E r \in ReqIds : RouterHandle(r)
    \/ \E r \in ReqIds, result \in Results : RouterFinish(r, result)


\* no call of typecast yet
NoCast == [called |-> FALSE, data |-> JNone, tp |-> "-", out |-> Ok(JNone)]

\* an EventEmitter on which emit has not been called
NoEmit == [pc |-> "idle", event |-> "-", is_background |-> FALSE, handler |-> <<>>,
           awaiting |-> <<>>, trace |-> <<>>, message |-> <<>>, failed |-> FALSE,
           returned |-> "-"]

InitState ==
    /\ app = EmptyRegistry
    /\ on_startup = <<>>
    /\ on_cleanup = <<>>
    /\ on_shutdown = <<>>
    /\ made = {}
    /\ returned = {}
    /\ raised = {}
    /\ appCalls = 0
    /\ casted = NoCast
    /\ emitter = NoEmit
    /\ req = [r \in ReqIds |-> NewRequestRec(r)]

Init == cfg \in ResolverApps /\ InitState

Spec == Init /\ [][Next]_vars


InitBind == cfg \in BinderApps /\ InitState

BindSpec == InitBind /\ [][Next]_vars

(***************************************************************************)
(* Registration of middlewares.  Bridge.add_middleware appends the         *)
(* middleware function made of its argument to app.middlewares, which the  *)
(* application runs in order on every request; an entry of the chain is    *)
(* named by the class it was made of.  Registration happens before the     *)
(* first request (the list is frozen when the application starts).         *)
(***************************************************************************)
make_middleware(cls) == cls

AddMiddleware(handler) ==
    /\ \A r \in ReqIds : req[r].pc = "idle"
    /\ Len(cfg.middlewares) < MaxMiddlewares
    /\ cfg' = [cfg EXCEPT !.middlewares = Append(@, make_middleware(handler))]
    /\ UNCHANGED <<app, on_startup, on_cleanup, on_shutdown, made, req, returned, raised,
                   appCalls, casted, emitter>>

ChainNext ==
    \/ \E handler \in {"MidB"} : AddMiddleware(handler)
    \/ \E r \in ReqIds, path \in Paths, body \in cfg.bodies, query \in cfg.queries :
          Arrive(r, path, body, query)
    \/ \E r \in ReqIds : RunMiddleware(r)
    \/ \E r \in ReqIds : Handle(r)
    \/ \E r \in ReqIds, result \in Results : Finish(r, result)

ChainInit == cfg = [BaseApp EXCEPT !.middlewares = <<>>] /\ InitState

ChainSpec == ChainInit /\ [][ChainNext]_vars

(***************************************************************************)
(* typecast as a function of its two arguments: the data and the declared  *)
(* types it is applied to, and the step that applies it.                   *)
(***************************************************************************)
CastTexts == {"10", "11", "11,12", "12.3", "1", "a", "b", "c", "abc"}

CastData ==
    {JStr(t) : t \in CastTexts}
        \cup {JInt(10), JInt(1), JInt(3), JFloat("12.3"), JNone}
        \cup {JList(<<JStr("11"), JStr("12")>>), JList(<<JInt(11), JInt(12)>>),
              JList(<<JInt(11), JStr("a")>>)}
        \cup {JObj(<<>>), JObj([age |-> JInt(25)]), JObj([name |-> JStr("John")]),
              JObj([name |-> JStr("John"), age |-> JInt(25)]),
              JObj([name |-> JInt(25)]),
              JObj([name |-> JStr("John"), nick |-> JStr("J")]),
              JObj([nick |-> JStr("J")])}

CastTypes ==
    {"int", "str", "NoneType", "list[int]", "Union[int,list[int]]", "Union[list[int],int]",
     "Union[str,int]", "Union[int,str]", "Optional[str]", "Literal['a','b']",
     "Literal[1,2]", "Literal", "UserInput", "Profile", "Account", "DictStrInt"}

Typecast(data, tp) ==
    /\ casted' = [called |-> TRUE, data |-> data, tp |-> tp, out |-> typecast(data, tp)]
    /\ UNCHANGED <<cfg, app, on_startup, on_cleanup, on_shutdown, made, req, returned,
                   raised, appCalls, emitter>>

CastNext == \E data \in CastData, tp \in CastTypes : Typecast(data, tp)

CastInit == cfg = BaseApp /\ InitState

CastSpec == CastInit /\ [][CastNext]_vars

(***************************************************************************)
(* EventEmitter.  A handler is the sequence of the callables it is made    *)
(* of, outermost first: wrap_middleware(m)(h) calls m with h as its        *)
(* handler.  The middlewares are those of the test: each awaits its        *)
(* handler once and then appends its mark to the message of the response.  *)
(***************************************************************************)
EventMiddlewares == {"AddAsterisk", "AddExclamation"}

mark(m) == IF m = "AddAsterisk" THEN "*" ELSE "!"

\* the events with a subscriber, and those whose subscriber runs in the background
Subscribed == {"test_event", "job_event"}
Background == {"job_event"}
Events == Subscribed \cup {"no_event"}

reversed(seq) == [i \in 1..Len(seq) |-> seq[Len(seq) + 1 - i]]

wrap_middleware(m, h) == <<m>> \o h

RECURSIVE wrap_all(_, _, _)
\* the loop "for m in ms: handler = wrap_middleware(m)(handler)" from its i-th turn
wrap_all(ms, i, handler) ==
    IF i > Len(ms) THEN handler
    ELSE wrap_all(ms, i + 1, wrap_middleware(ms[i], handler))

\* the wrapping loop over the middlewares as they are listed, the first innermost
make_event_handler_forward(middlewares, handler) ==
    wrap_all(middlewares, 1, handler)

make_event_handler(middlewares, handler) ==
    wrap_all(reversed(middlewares), 1, handler)

\* match_info.handler: the subscriber of the event, or the router's 404 handler
match_info_handler(event) ==
    IF event \in Subscribed THEN <<"handle:" \o event>> ELSE <<"HTTPNotFound">>

\* emit up to its first await of the built handler
Emit(event) ==
    /\ emitter.pc \in {"idle", "done"}
    /\ emitter' = [NoEmit EXCEPT
                      !.pc = "running",
                      !.event = event,
                      !.is_background = event \in Background,
                      !.handler = make_event_handler(cfg.middlewares,
                                                     match_info_handler(event)),
                      !.returned = IF event \in Background THEN "204" ELSE "-"]
    /\ UNCHANGED <<cfg, app, on_startup, on_cleanup, on_shutdown, made, req, returned,
                   raised, appCalls, casted>>

\* wrapper(request) of a middleware: m(request, h) runs up to "await handler(request)"
EnterMiddleware ==
    /\ emitter.pc = "running" /\ Len(emitter.handler) > 1
    /\ emitter' = [emitter EXCEPT
                      !.handler = Tail(@),
                      !.awaiting = Append(@, Head(emitter.handler)),
                      !.trace = Append(@, [at |-> "enter", m |-> Head(emitter.handler),
                                           depth |-> Len(emitter.awaiting) + 1])]
    /\ UNCHANGED <<cfg, app, on_startup, on_cleanup, on_shutdown, made, req, returned,
                   raised, appCalls, casted>>

\* the innermost call: the subscriber, or the router's handler that raises 404
RunHandler ==
    /\ emitter.pc = "running" /\ Len(emitter.handler) = 1
    /\ emitter' = [emitter EXCEPT
                      !.handler = <<>>,
                      !.failed = Head(emitter.handler) = "HTTPNotFound",
                      !.trace = Append(@, [at |-> "handler", m |-> Head(emitter.handler),
                                           depth |-> Len(emitter.awaiting) + 1])]
    /\ UNCHANGED <<cfg, app, on_startup, on_cleanup, on_shutdown, made, req, returned,
                   raised, appCalls, casted>>

\* the rest of a middleware once its handler has returned or raised
LeaveMiddleware ==
    /\ emitter.pc = "running" /\ emitter.handler = <<>> /\ emitter.awaiting # <<>>
    /\ LET m == emitter.awaiting[Len(emitter.awaiting)]
       IN emitter' = [emitter EXCEPT
                         !.awaiting = SubSeq(@, 1, Len(@) - 1),
                         !.message = IF emitter.failed THEN @ ELSE Append(@, mark(m)),
                         !.trace = Append(@, [at |-> "exit", m |-> m,
                                              depth |-> Len(emitter.awaiting)])]
    /\ UNCHANGED <<cfg, app, on_startup, on_cleanup, on_shutdown, made, req, returned,
                   raised, appCalls, casted>>

\* the built handler is done: emit returns its response, or the spawned job ends
EmitDone ==
    /\ emitter.pc = "running" /\ emitter.handler = <<>> /\ emitter.awaiting = <<>>
    /\ emitter' = [emitter EXCEPT
                      !.pc = "done",
                      !.returned = IF emitter.is_background THEN @
                                   ELSE IF emitter.failed THEN "HTTPNotFound"
                                   ELSE "response"]
    /\ UNCHANGED <<cfg, app, on_startup, on_cleanup, on_shutdown, made, req, returned,
                   raised, appCalls, casted>>

EmitNext ==
    \/ \E event \in Events : Emit(event)
    \/ EnterMiddleware
    \/ RunHandler
    \/ LeaveMiddleware
    \/ EmitDone

RECURSIVE SeqsUpTo(_, _)
SeqsUpTo(S, n) ==
    IF n = 0 THEN {<<>>}
    ELSE SeqsUpTo(S, n - 1) \cup {Append(q, x) : q \in SeqsUpTo(S, n - 1), x \in S}

\* the applications whose middleware list is any list of the two middlewares
EmitApps ==
    {[BaseApp EXCEPT !.middlewares = ms] : ms \in SeqsUpTo(EventMiddlewares, MaxMiddlewares)}

EmitInit == cfg \in EmitApps /\ InitState

EmitSpec == EmitInit /\ [][EmitNext]_vars

(***************************************************************************)
(* Values handed out by the resolver: what a top-level resolution returned *)
(* and what was passed to a constructor or factory as an argument.         *)
(***************************************************************************)
ArgsOfClass(v, T) == {v.args[i] : i \in {j \in DOMAIN v.args : v.args[j].cls = T}}

ModuleClasses == {t \in Classes : IsModule(t)}
RequestClasses == {t \in Classes : IsMiddlewareOrService(t)}

\* the values of Module class T obtained through autowire_module, through an
\* injected handler parameter, or as a constructor dependency
ModuleHandedOut(T) ==
    {x.val : x \in {y \in returned : y.cls = T /\ y.via \in {"autowire_module", "handler"}}}
    \cup UNION {ArgsOfClass(v, T) : v \in made}

\* the values of class T obtained by autowire while handling request r
RequestHandedOut(r, T) ==
    {x.val : x \in {y \in returned : y.cls = T /\ y.rid = r /\ y.via \in {"autowire", "handler"}}}
    \cup UNION {ArgsOfClass(v, T) : v \in {w \in made : w.scope = r}}

(***************************************************************************)
(* C1: every resolution of a Module type T, by autowire_module, by an      *)
(* injected handler parameter or as a constructor dependency of a          *)
(* request-scope component, returns the one instance stored in the         *)
(* application, and T's constructor is invoked at most once.               *)
(***************************************************************************)
C1_ModuleSingleton ==
    \A T \in ModuleClasses :
        /\ Cardinality({v \in made : v.cls = T /\ v.scope = 0}) <= 1
        /\ \A x \in ModuleHandedOut(T) :
              app[T].st = "READY" /\ x = app[T].val /\ x \in made

\* ModA was returned by autowire_module, to a handler, and to the constructor of
\* a service of the second request
C1_Witness ==
    /\ \E x, y \in returned :
          /\ x.cls = "ModA" /\ x.via = "autowire_module"
          /\ y.cls = "ModA" /\ y.via = "handler" /\ y.rid = 1
    /\ \E v \in made : v.cls = "SvcA" /\ v.scope = 2 /\ ArgsOfClass(v, "ModA") # {}

(***************************************************************************)
(* C2 as claimed: for a Service or Middleware type T, two resolutions on   *)
(* the same request return the identical instance and resolutions on two   *)
(* distinct requests return distinct instances.                            *)
(***************************************************************************)
C2_AsClaimed ==
    \A T \in RequestClasses : \A r1, r2 \in ReqIds :
        \A x \in RequestHandedOut(r1, T), y \in RequestHandedOut(r2, T) :
            (r1 = r2) <=> (x = y)

(***************************************************************************)
(* C2 amended: for a Service or Middleware type T without a registered     *)
(* bean factory, two resolutions on the same request return the identical  *)
(* value; on requests whose path is not the scan path the value is an      *)
(* instance made for that request, so two such requests never share one.   *)
(***************************************************************************)
C2_RequestScoped ==
    \A T \in RequestClasses \ cfg.beans : \A r1, r2 \in ReqIds :
        \A x \in RequestHandedOut(r1, T), y \in RequestHandedOut(r2, T) :
            /\ r1 = r2 => x = y
            /\ req[r1].path # LESSWEB_SCAN_PATH =>
                  x.k = "inst" /\ x.scope = r1 /\ x \in made
            /\ (r1 # r2 /\ req[r1].path # LESSWEB_SCAN_PATH
                        /\ req[r2].path # LESSWEB_SCAN_PATH) => x # y

\* two requests each got SvcA twice in the handler and once in the middleware
C2_Witness ==
    /\ \A r \in {1, 2} :
          /\ req[r].pc = "awaiting" /\ req[r].path # LESSWEB_SCAN_PATH
          /\ {"svc", "again"} \subseteq DOMAIN req[r].kwargs
          /\ req[r].kwargs["svc"] = req[r].kwargs["again"]
          /\ req[r].kwargs["svc"].k = "inst"
          /\ \E v \in made : v.cls = "MidB" /\ v.scope = r
                              /\ req[r].kwargs["svc"] \in ArgsOfClass(v, "SvcA")
    /\ req[1].kwargs["svc"] # req[2].kwargs["svc"]

(***************************************************************************)
(* The cycles A -> B -> A the resolver of a scope runs into: B is the      *)
(* first parameter of what makes A, and A the first parameter of what      *)
(* makes B (a bean factory's parameters count when one is registered).     *)
(***************************************************************************)
ProcessCycle(c, A, B) ==
    /\ A \in Classes /\ B \in Classes /\ A # B
    /\ get_depends_on(c, A) # <<>> /\ get_depends_on(c, A)[1] = B
    /\ get_depends_on(c, B) # <<>> /\ get_depends_on(c, B)[1] = A

RequestMade(c, t) == t \in c.beans \/ IsMiddlewareOrService(t)

RequestDeps(c, t) ==
    IF t \in c.beans THEN bean_depends_on(c, t) ELSE get_depends_on(c, t)

RequestCycle(c, A, B) ==
    /\ A \in Classes /\ B \in Classes /\ A # B
    /\ RequestMade(c, A) /\ RequestMade(c, B) /\ ~IsModule(A) /\ ~IsModule(B)
    /\ RequestDeps(c, A) # <<>> /\ RequestDeps(c, A)[1] = B
    /\ RequestDeps(c, B) # <<>> /\ RequestDeps(c, B)[1] = A

ProcessResolution(e) ==
    e.via = "autowire_module" \/ (e.via = "handler" /\ IsModule(e.cls))

RequestResolution(e) ==
    e.via = "autowire" \/ (e.via = "handler" /\ ~IsModule(e.cls))

(***************************************************************************)
(* C3: when A -> B -> A is a cycle, a resolution of A never returns: it    *)
(* raises the circular-dependency error at A (A's slot is seen pending)    *)
(* and neither A nor B is constructed, in the process scope and in the     *)
(* request scope.                                                          *)
(***************************************************************************)
C3_CircularDependency ==
    /\ \A x \in returned : \A B \in Classes :
          /\ ProcessResolution(x) => ~ProcessCycle(cfg, x.cls, B)
          /\ RequestResolution(x) => ~RequestCycle(cfg, x.cls, B)
    /\ \A e \in raised : \A B \in Classes :
          /\ (ProcessResolution(e) /\ ProcessCycle(cfg, e.cls, B)) =>
                /\ e.err = "circular" /\ e.at = e.cls
                /\ app[e.cls].st = "PENDING"
                /\ ~\E v \in made : v.scope = 0 /\ v.cls \in {e.cls, B}
          /\ (RequestResolution(e) /\ RequestCycle(cfg, e.cls, B)) =>
                /\ e.err = "circular" /\ e.at = e.cls
                /\ req[e.rid].reg[e.cls].st = "PENDING"
                /\ ~\E v \in made : v.scope = e.rid /\ v.cls \in {e.cls, B}

\* a resolution of a Module and one of a Middleware each ran into its cycle
C3_Witness ==
    \E e1, e2 \in raised : \E B1, B2 \in Classes :
        /\ ProcessResolution(e1) /\ ProcessCycle(cfg, e1.cls, B1) /\ e1.err = "circular"
        /\ RequestResolution(e2) /\ RequestCycle(cfg, e2.cls, B2) /\ e2.err = "circular"

(***************************************************************************)
(* The positional-only (BODY) parameters of a handler, in declaration      *)
(* order.                                                                  *)
(***************************************************************************)
IsBody(p) == p.kind = POSITIONAL_ONLY
BodyParamsOf(params) == SelectSeq(params, IsBody)

\* the position in params of the j-th BODY parameter
BodyPos(params, j) ==
    CHOOSE i \in DOMAIN params :
        /\ IsBody(params[i])
        /\ Cardinality({h \in 1..i : IsBody(params[h])}) = j

\* the binder of request r got as far as the j-th BODY parameter: the BODY
\* parameters before it are bound and the others before it have their value
ReachedBody(r, j) ==
    /\ req[r].pc \in {"awaiting", "done"}
    /\ j \in 1..Len(BodyParamsOf(cfg.route.params))
    /\ Len(req[r].bound) >= j - 1
    /\ \A h \in 1..(BodyPos(cfg.route.params, j) - 1) :
          IsBody(cfg.route.params[h]) \/ cfg.route.params[h].name \in DOMAIN req[r].kwargs

Max(a, b) == IF a >= b THEN a ELSE b

(***************************************************************************)
(* C4: when n payloads were pushed and the handler has k <= n BODY         *)
(* parameters, the i-th BODY parameter is bound from the (n-i+1)-th pushed *)
(* payload (the last pushed goes to the first parameter), no payload is    *)
(* used twice, and a handler that is invoked has all k bound.              *)
(***************************************************************************)
C4_LifoBinding ==
    \A r \in ReqIds :
        LET n == Len(req[r].pushed)
            body_params == BodyParamsOf(cfg.route.params)
        IN (cfg.route.impl = "ioc" /\ n >= Len(body_params)) =>
              /\ \A i \in DOMAIN req[r].bound :
                    /\ req[r].bound[i].name = body_params[i].name
                    /\ req[r].bound[i].src = "stack"
                    /\ req[r].bound[i].idx = n - i + 1
                    /\ req[r].bound[i].data = req[r].pushed[n - i + 1]
              /\ \A i, j \in DOMAIN req[r].bound :
                    i # j => req[r].bound[i].idx # req[r].bound[j].idx
              /\ req[r].invoked > 0 => Len(req[r].bound) = Len(body_params)

\* the raw body and then its upper-case copy were pushed; realVo got the copy
\* and rawVo the original
C4_Witness ==
    \E r \in ReqIds :
        /\ cfg.route.impl = "ioc" /\ req[r].invoked = 1
        /\ req[r].pushed = <<BodyJohn, BodyJOHN>>
        /\ Len(req[r].bound) = 2
        /\ req[r].bound[1].data = BodyJOHN /\ req[r].bound[2].data = BodyJohn
        /\ req[r].args = <<JObj([name |-> JStr("JOHN")]), JObj([name |-> JStr("John")])>>

(***************************************************************************)
(* C5: when the binder reaches a BODY parameter that is not the first and  *)
(* the stack is empty (every pushed payload, or the raw body, went to the  *)
(* BODY parameters before it), the request fails with the TypeError        *)
(* 'request stack is empty for param' naming that parameter: a 5xx, and    *)
(* the handler is not invoked.                                             *)
(***************************************************************************)
C5_StackExhausted ==
    \A r \in ReqIds :
        LET m == Max(Len(req[r].pushed), 1)
            body_params == BodyParamsOf(cfg.route.params)
        IN (/\ cfg.route.impl = "ioc"
            /\ m < Len(body_params)
            /\ ReachedBody(r, m + 1)) =>
              /\ req[r].pc = "done" /\ req[r].invoked = 0
              /\ Len(req[r].bound) = m
              /\ req[r].out = Failure("TypeError", "request stack is empty for param",
                                      body_params[m + 1].name)
              /\ req[r].out.status = "5xx"
              /\ req[r].stack = <<>> /\ req[r].reads <= 1

\* three BODY parameters, two payloads pushed: the third finds the stack empty
C5_Witness ==
    \E r \in ReqIds :
        /\ cfg.route.impl = "ioc"
        /\ Len(req[r].pushed) = 2 /\ Len(req[r].bound) = 2
        /\ Len(BodyParamsOf(cfg.route.params)) = 3
        /\ req[r].out.param = "eof_vo" /\ req[r].out.exc = "TypeError"
        /\ req[r].invoked = 0

(***************************************************************************)
(* C6 as claimed: a BODY parameter is bound from the raw request payload   *)
(* exactly when it is the first BODY parameter and the stack is empty      *)
(* (nothing was pushed); every other BODY parameter that is bound is bound *)
(* from a popped stack entry.  Stated of both binders.                     *)
(***************************************************************************)
C6_RawOnlyFirst ==
    \A r \in ReqIds : \A i \in DOMAIN req[r].bound :
        /\ req[r].bound[i].src = "raw" <=> (i = 1 /\ Len(req[r].pushed) = 0)
        /\ req[r].bound[i].src = "raw" => req[r].bound[i].data = req[r].body
        /\ req[r].bound[i].src # "raw" =>
              /\ req[r].bound[i].src = "stack"
              /\ req[r].bound[i].data = req[r].pushed[req[r].bound[i].idx]

(***************************************************************************)
(* C7 as claimed: a coercion that fails with the client's ValueError ends  *)
(* the request with a 4xx, one that fails with NotImplementedError (the    *)
(* declared type is not supported) with a 5xx, for BODY and for            *)
(* QUERY_OR_PATH parameters.                                               *)
(***************************************************************************)
C7_FailureClasses ==
    \A r \in ReqIds : \A i \in DOMAIN req[r].casts :
        /\ req[r].casts[i].exc = "ValueError" =>
              req[r].pc = "done" /\ req[r].out.status = "4xx"
        /\ req[r].casts[i].exc = "NotImplementedError" =>
              req[r].pc = "done" /\ req[r].out.status = "5xx"

(***************************************************************************)
(* C8 as claimed: autowire(request, T) for a Module T returns the          *)
(* application's singleton of T, when T is the type requested and when T   *)
(* is a dependency.                                                        *)
(***************************************************************************)
C8_AsClaimed ==
    /\ \A e \in raised : (e.via = "autowire" /\ IsModule(e.cls)) => e.err # "not_injectable"
    /\ \A x \in returned : (x.via = "autowire" /\ IsModule(x.cls)) =>
          app[x.cls].st = "READY" /\ x.val = app[x.cls].val
    /\ \A v \in made : \A T \in ModuleClasses : \A a \in ArgsOfClass(v, T) :
          app[T].st = "READY" /\ a = app[T].val

(***************************************************************************)
(* C8 amended: a Module T that is a constructor or bean-factory dependency *)
(* is resolved in the process scope, also when a bean factory is           *)
(* registered for T; autowire(request, T) with T the type requested never  *)
(* delegates: without a bean factory for T it raises the 'Can only         *)
(* autowire Middleware or Service' assertion, with one it returns what the *)
(* factory made for the request (the placeholder on the scan path).        *)
(***************************************************************************)
C8_ModuleDependency ==
    /\ \A v \in made : \A T \in ModuleClasses : \A a \in ArgsOfClass(v, T) :
          /\ app[T].st = "READY" /\ a = app[T].val
          /\ a.k = "inst" /\ a.scope = 0
    /\ \A e \in raised : (e.via = "autowire" /\ IsModule(e.cls) /\ e.cls \notin cfg.beans) =>
          e.err = "not_injectable" /\ e.at = e.cls
    /\ \A x \in returned : (x.via = "autowire" /\ IsModule(x.cls)) =>
          /\ x.cls \in cfg.beans
          /\ \/ x.val.k = "bean" /\ x.val.scope = x.rid /\ x.val # app[x.cls].val
             \/ x.val = ScanMark /\ req[x.rid].path = LESSWEB_SCAN_PATH

\* ModA has a bean factory: as the dependency of SvcA it is the singleton, and
\* requested from autowire it is the factory's product
C8_Witness ==
    /\ "ModA" \in cfg.beans
    /\ \E v \in made : v.cls = "SvcA" /\ ArgsOfClass(v, "ModA") = {app["ModA"].val}
    /\ \E x \in returned : x.via = "autowire" /\ x.cls = "ModA" /\ x.val.k = "bean"

(***************************************************************************)
(* C9: autowire(request, T) for a class T that is not Request, has no      *)
(* bean factory and is no Service or Middleware never returns: it raises   *)
(* the not-injectable assertion at T, T is not constructed for the request *)
(* and the request's registry slot of T stays absent.                      *)
(***************************************************************************)
C9_NotInjectable ==
    /\ \A x \in returned : (RequestResolution(x) /\ x.cls \in Classes) =>
          RequestMade(cfg, x.cls)
    /\ \A e \in raised : (RequestResolution(e) /\ e.cls \in Classes
                          /\ ~RequestMade(cfg, e.cls)) =>
          e.err = "not_injectable" /\ e.at = e.cls
    /\ \A e \in raised : e.err = "not_injectable" =>
          e.at \in Types /\ ~RequestMade(cfg, e.at) /\ e.at # "Request"
    /\ \A r \in ReqIds : \A T \in Classes : ~RequestMade(cfg, T) =>
          /\ req[r].reg[T].st = "ABSENT"
          /\ ~\E v \in made : v.cls = T /\ v.scope = r

\* a handler asked for Plain after its middleware had been resolved
C9_Witness ==
    \E e \in raised :
        /\ e.via = "handler" /\ e.cls = "Plain" /\ e.err = "not_injectable"
        /\ req[e.rid].reg["MidB"].st = "READY" /\ req[e.rid].reg["Plain"].st = "ABSENT"
        /\ req[e.rid].out.status = "5xx" /\ req[e.rid].invoked = 0

\* the values of bean type T obtained while handling request r
BeanHandedOut(r, T) ==
    {x.val : x \in {y \in returned : y.cls = T /\ y.rid = r /\ RequestResolution(y)}}
    \cup (IF IsModule(T) THEN {}
          ELSE UNION {ArgsOfClass(v, T) : v \in {w \in made : w.scope = r}})

FactoryCalls(r, T) == {v \in made : v.k = "bean" /\ v.cls = T /\ v.scope = r}

(***************************************************************************)
(* C10 as claimed: with a bean factory registered for T, every resolution  *)
(* of T by autowire returns what the factory produced, the same value      *)
(* within a request, and the factory is invoked at most once per request.  *)
(***************************************************************************)
C10_AsClaimed ==
    \A r \in ReqIds : \A T \in cfg.beans :
        /\ Cardinality(FactoryCalls(r, T)) <= 1
        /\ \A x \in BeanHandedOut(r, T) : x \in FactoryCalls(r, T)
        /\ \A e \in raised : (e.rid = r /\ e.cls = T /\ RequestResolution(e)) =>
              FactoryCalls(r, T) = {}

(***************************************************************************)
(* C10 amended: with a bean factory registered for T, autowire never       *)
(* invokes T's constructor and invokes the factory at most once per        *)
(* request, with the resolved values of the factory's parameters; all      *)
(* resolutions of T in a request that return, return the same value: the   *)
(* factory's product stored in the registry, or, on the scan path, the     *)
(* placeholder (the factory is then not invoked), or None when the factory *)
(* returned None (the slot then reads as pending).                         *)
(***************************************************************************)
C10_BeanMemoized ==
    \A r \in ReqIds : \A T \in cfg.beans :
        /\ Cardinality(FactoryCalls(r, T)) <= 1
        /\ ~\E v \in made : v.cls = T /\ v.scope = r /\ v.k # "bean"
        /\ \A v \in FactoryCalls(r, T) :
              /\ req[r].path # LESSWEB_SCAN_PATH
              /\ Len(v.args) = Len(bean_depends_on(cfg, T))
        /\ \A x, y \in BeanHandedOut(r, T) : x = y
        /\ \A x \in BeanHandedOut(r, T) :
              \/ /\ req[r].path = LESSWEB_SCAN_PATH
                 /\ x = ScanMark /\ req[r].reg[T] = ReadySlot(ScanMark)
              \/ /\ req[r].path # LESSWEB_SCAN_PATH /\ T \in cfg.beanNone
                 /\ x = PyNone /\ req[r].reg[T] = PendingSlot
                 /\ FactoryCalls(r, T) # {}
              \/ /\ req[r].path # LESSWEB_SCAN_PATH /\ T \notin cfg.beanNone
                 /\ x \in FactoryCalls(r, T) /\ req[r].reg[T] = ReadySlot(x)

\* a handler got Conn twice: one product of the factory, made from a service
\* and a module
C10_Witness ==
    \E r \in ReqIds :
        /\ req[r].pc = "awaiting"
        /\ {"conn", "conn2"} \subseteq DOMAIN req[r].kwargs
        /\ req[r].kwargs["conn"] = req[r].kwargs["conn2"]
        /\ req[r].kwargs["conn"].k = "bean"
        /\ Len(req[r].kwargs["conn"].args) = 2
        /\ Cardinality(FactoryCalls(r, "Conn")) = 1

(***************************************************************************)
(* The binder of request r got as far as the i-th parameter: it ran and    *)
(* every parameter before the i-th has its value.                          *)
(***************************************************************************)
ReachedParam(r, i) ==
    /\ req[r].binding
    /\ i \in DOMAIN cfg.route.params
    /\ \A h \in 1..(i - 1) :
          IF IsBody(cfg.route.params[h])
          THEN Len(req[r].bound) >= Cardinality({g \in 1..h : IsBody(cfg.route.params[g])})
          ELSE cfg.route.params[h].name \in DOMAIN req[r].kwargs

\* the i-th parameter is keyword-only and the request has no value for it
AbsentQuery(r, i) ==
    /\ cfg.route.impl = "ioc"
    /\ ReachedParam(r, i)
    /\ cfg.route.params[i].kind = KEYWORD_ONLY
    /\ cfg.route.params[i].name \notin DOMAIN req[r].match_info
    /\ cfg.route.params[i].name \notin DOMAIN req[r].query

MissingParameter(r, p) ==
    /\ req[r].out = Failure("HTTPBadRequest", "missing required parameter", p.name)
    /\ req[r].out.status = "4xx"
    /\ req[r].invoked = 0

(***************************************************************************)
(* C11 as claimed: a keyword-only parameter without a value gets the       *)
(* result of its DefaultFactory if it has one, else its literal default,   *)
(* else the request fails with 'missing required parameter' (4xx).         *)
(***************************************************************************)
C11_AsClaimed ==
    \A r \in ReqIds : \A i \in DOMAIN cfg.route.params :
        AbsentQuery(r, i) =>
            LET p == cfg.route.params[i]
            IN IF spawn_default_factory(p) # Empty
               THEN req[r].kwargs[p.name] = spawn_default_factory(p)
               ELSE IF p.default # Empty
               THEN req[r].kwargs[p.name] = p.default
               ELSE MissingParameter(r, p)

(***************************************************************************)
(* C11 amended: a keyword-only parameter without a value gets its literal  *)
(* default if it declares one (a declared None included), else the result  *)
(* of its DefaultFactory if it has one, else the request fails with        *)
(* 'missing required parameter' (4xx) and the handler is not invoked.      *)
(***************************************************************************)
C11_DefaultOrder ==
    \A r \in ReqIds : \A i \in DOMAIN cfg.route.params :
        AbsentQuery(r, i) =>
            LET p == cfg.route.params[i]
            IN IF p.default # Empty
               THEN req[r].kwargs[p.name] = p.default
               ELSE IF spawn_default_factory(p) # Empty
               THEN req[r].kwargs[p.name] = spawn_default_factory(p)
               ELSE MissingParameter(r, p)

\* q has the literal default 3 and a DefaultFactory giving 7: the handler got 3
C11_Witness ==
    \E r \in ReqIds :
        /\ AbsentQuery(r, 1) /\ req[r].pc = "awaiting"
        /\ cfg.route.params[1].default = JInt(3)
        /\ spawn_default_factory(cfg.route.params[1]) = JInt(7)
        /\ req[r].kwargs["q"] = JInt(3)

(***************************************************************************)
(* How the binder treated the i-th parameter, read from what it left: a    *)
(* BODY parameter is in the positional arguments or failed with an error   *)
(* of the body branch, a QUERY_OR_PATH parameter has a coerced or default  *)
(* keyword value or failed with an error of the query branch, an INJECTED  *)
(* parameter has what the resolver returned or failed with its error.      *)
(***************************************************************************)
BodyErrors ==
    {"request stack is empty for param", "positional only param must be bytes",
     "invalid request body", "cannot inspect type"}

QueryErrors == {"missing required parameter", "invalid parameter"}

BodyIndex(i) == Cardinality({g \in 1..i : IsBody(cfg.route.params[g])})

TreatedAsBody(r, i) ==
    LET p == cfg.route.params[i]
    IN /\ p.name \notin DOMAIN req[r].kwargs
       /\ ~\E x \in returned \cup raised : x.rid = r /\ x.cls = p.type /\ x.via = "handler"
       /\ \/ /\ Len(req[r].bound) >= BodyIndex(i)
             /\ req[r].bound[BodyIndex(i)].name = p.name
             /\ Len(req[r].args) >= BodyIndex(i)
          \/ /\ Len(req[r].bound) = BodyIndex(i) - 1
             /\ req[r].out.param = p.name /\ req[r].out.msg \in BodyErrors

TreatedAsQuery(r, i) ==
    LET p == cfg.route.params[i]
    IN /\ ~\E x \in returned \cup raised : x.rid = r /\ x.cls = p.type /\ x.via = "handler"
       /\ \/ /\ p.name \in DOMAIN req[r].kwargs
             /\ "j" \in DOMAIN req[r].kwargs[p.name]
          \/ /\ p.name \notin DOMAIN req[r].kwargs
             /\ req[r].out.param = p.name /\ req[r].out.msg \in QueryErrors
             /\ req[r].out.status = "4xx"

TreatedAsInjected(r, i) ==
    LET p == cfg.route.params[i]
    IN \/ /\ p.name \in DOMAIN req[r].kwargs
          /\ [rid |-> r, cls |-> p.type, val |-> req[r].kwargs[p.name], via |-> "handler"]
                \in returned
       \/ /\ p.name \notin DOMAIN req[r].kwargs
          /\ \E e \in raised :
                /\ e.rid = r /\ e.cls = p.type /\ e.via = "handler"
                /\ req[r].out = Failure(ResolverExc(e.err), e.err, e.at)

(***************************************************************************)
(* C12: every parameter the binder reaches is treated by its kind alone:   *)
(* positional-only as BODY, keyword-only as QUERY_OR_PATH, any other kind  *)
(* (positional-or-keyword, *args, **kwargs) as INJECTED, whatever its      *)
(* declared type.                                                          *)
(***************************************************************************)
C12_KindFromSyntax ==
    \A r \in ReqIds : \A i \in DOMAIN cfg.route.params :
        (cfg.route.impl = "ioc" /\ ReachedParam(r, i)) =>
            IF cfg.route.params[i].kind = POSITIONAL_ONLY THEN TreatedAsBody(r, i)
            ELSE IF cfg.route.params[i].kind = KEYWORD_ONLY THEN TreatedAsQuery(r, i)
            ELSE TreatedAsInjected(r, i)

\* a positional-only parameter of a Service type was read from the body
C12_Witness ==
    \E r \in ReqIds :
        /\ cfg.route.impl = "ioc" /\ ReachedParam(r, 1)
        /\ cfg.route.params[1].kind = POSITIONAL_ONLY
        /\ IsMiddlewareOrService(cfg.route.params[1].type)
        /\ req[r].out.msg \in BodyErrors /\ req[r].reads = 1
        /\ TreatedAsBody(r, 1)

(***************************************************************************)
(* C13 as claimed: whenever a handler bound by autowire_handler returns    *)
(* None the response is the empty 204, whatever the handler's declared     *)
(* response type.                                                          *)
(***************************************************************************)
C13_NoneIs204 ==
    \A r \in ReqIds :
        (cfg.route.impl = "ioc" /\ req[r].pc = "done" /\ req[r].result = "None") =>
            req[r].out = Success("204")

(***************************************************************************)
(* C14.  Coercion against a Union tries the arms in declared order and     *)
(* returns the result of the first arm whose coercion succeeds, whatever   *)
(* the later arms would give, and fails only if every arm fails; for       *)
(* Union[int, list[int]] the text "10" gives 10, "11,12" gives [11, 12]    *)
(* and "12.3" fails.                                                       *)
(***************************************************************************)
IsUnionCall == casted.called /\ inspect_type(casted.tp).ok
                   /\ inspect_type(casted.tp).val.o = "Union"

UnionArms == inspect_type(casted.tp).val.args

GoodArms == {k \in DOMAIN UnionArms : typecast(casted.data, UnionArms[k]).ok}

FirstGoodArm == CHOOSE k \in GoodArms : \A j \in GoodArms : k <= j

C14_UnionFirstArm ==
    /\ IsUnionCall =>
          IF GoodArms = {} THEN ~casted.out.ok /\ casted.out.exc = "TypeCastError"
          ELSE casted.out = typecast(casted.data, UnionArms[FirstGoodArm])
    /\ casted.called /\ casted.tp = "Union[int,list[int]]" =>
          /\ casted.data = JStr("10") => casted.out = Ok(JInt(10))
          /\ casted.data = JStr("11,12") => casted.out = Ok(JList(<<JInt(11), JInt(12)>>))
          /\ casted.data = JStr("12.3") => ~casted.out.ok

\* both arms accept the text "10"; the list arm is declared first and wins
C14_Witness ==
    /\ casted.called /\ casted.tp = "Union[list[int],int]" /\ casted.data = JStr("10")
    /\ GoodArms = {1, 2}
    /\ typecast(casted.data, "int") = Ok(JInt(10))
    /\ casted.out = Ok(JList(<<JInt(10)>>))

(***************************************************************************)
(* C15.  As claimed: coercing a JSON object that lacks a required field of *)
(* a record type fails with a "missing required keys" error naming the     *)
(* missing field, as {"age": 25} against the record {name: str} does.      *)
(***************************************************************************)
IsRecordCall == casted.called /\ inspect_type(casted.tp).ok
                    /\ inspect_type(casted.tp).val.o = "dict" /\ casted.data.j = "obj"

RecordHints == inspect_type(casted.tp).val.hints

\* the keys of the object that are no field of the record
UnknownKeys == DOMAIN casted.data.f \ DOMAIN RecordHints

\* the keys of the object whose value does not coerce to the field's type
BadKeys == {k \in DOMAIN casted.data.f \cap DOMAIN RecordHints :
               ~typecast(casted.data.f[k], RecordHints[k]).ok}

LackedKeys == inspect_type(casted.tp).val.required \ DOMAIN casted.data.f

C15_AsClaimed ==
    IsRecordCall /\ LackedKeys # {} =>
        casted.out = ExcKeys("TypeCastError", "missing required keys", LackedKeys)

(***************************************************************************)
(* C15, amended.  The keys of the object are coerced first, and a key that *)
(* is no field of the record fails there with "is not member"; only an     *)
(* object all of whose keys are fields and coerce fails with "missing      *)
(* required keys", naming the required fields it lacks whose type is not   *)
(* optional.  {"age": 25} against {name: str} fails with "'age' is not     *)
(* member", {} with "missing required keys ['name']".                      *)
(***************************************************************************)
C15_MissingRequired ==
    /\ IsRecordCall =>
          LET missing == {k \in LackedKeys : ~is_optional_type(RecordHints[k])}
          IN /\ UnknownKeys = {} /\ BadKeys = {} /\ missing # {} =>
                   casted.out = ExcKeys("TypeCastError", "missing required keys", missing)
             /\ casted.out.msg = "missing required keys" =>
                   UnknownKeys = {} /\ BadKeys = {} /\ missing # {}
             /\ UnknownKeys # {} /\ BadKeys = {} =>
                   /\ casted.out.exc = "TypeCastError" /\ casted.out.msg = "is not member"
                   /\ casted.out.keys \subseteq UnknownKeys /\ casted.out.keys # {}
    /\ casted.called /\ casted.tp = "UserInput" =>
          /\ casted.data = JObj([age |-> JInt(25)]) =>
                casted.out = ExcKeys("TypeCastError", "is not member", {"age"})
          /\ casted.data = JObj(<<>>) =>
                casted.out = ExcKeys("TypeCastError", "missing required keys", {"name"})

C15_Witness ==
    /\ IsRecordCall /\ casted.tp = "UserInput" /\ casted.data = JObj(<<>>)
    /\ LackedKeys = {"name"}
    /\ casted.out.msg = "missing required keys" /\ casted.out.keys = {"name"}

(***************************************************************************)
(* C16.  Coercion against a Literal returns the input exactly when the     *)
(* input equals, after canonical stringification, one of the allowed       *)
(* values, and otherwise fails with a TypeCastError; it never returns a    *)
(* value outside the allowed set ("a" against Literal["a", "b"] gives "a", *)
(* "c" fails).                                                             *)
(***************************************************************************)
IsLiteralCall == casted.called /\ inspect_type(casted.tp).ok
                     /\ inspect_type(casted.tp).val.o = "Literal"
                     /\ inspect_type(casted.tp).val.args # <<>>

LiteralValues == inspect_type(casted.tp).val.args

\* the canonical text of a string or an integer
Stringified(v) == IF v.j = "int" THEN ToString(v.n) ELSE v.s

IsScalar(v) == v.j \in {"str", "int"}

C16_LiteralMember ==
    /\ IsLiteralCall /\ IsScalar(casted.data) =>
          /\ casted.out.ok <=>
                \E i \in DOMAIN LiteralValues :
                    Stringified(LiteralValues[i]) = Stringified(casted.data)
          /\ casted.out.ok => casted.out.val = casted.data
          /\ ~casted.out.ok => casted.out.exc = "TypeCastError"
    /\ casted.called /\ casted.tp = "Literal['a','b']" =>
          /\ casted.data = JStr("a") => casted.out = Ok(JStr("a"))
          /\ casted.data = JStr("c") => ~casted.out.ok

(***************************************************************************)
(* C17.  emit runs the matched event handler inside the application's      *)
(* whole middleware chain, nested in registration order: of the            *)
(* middlewares m1..mn, m1 is entered first and left last, mn is entered    *)
(* last and left first, the handler runs between, and each middleware is   *)
(* invoked exactly once per emit.                                          *)
(***************************************************************************)
\* the calls of one emit, in order, for the middleware list ms
NestedCalls(ms, event) ==
    [i \in 1..Len(ms) |-> [at |-> "enter", m |-> ms[i], depth |-> i]]
        \o <<[at |-> "handler", m |-> "handle:" \o event, depth |-> Len(ms) + 1]>>
        \o [i \in 1..Len(ms) |-> [at |-> "exit", m |-> ms[Len(ms) + 1 - i],
                                   depth |-> Len(ms) + 1 - i]]

IsPrefix(p, q) == Len(p) <= Len(q) /\ p = SubSeq(q, 1, Len(p))

C17_MiddlewareNesting ==
    emitter.pc # "idle" /\ emitter.event \in Subscribed =>
        /\ IsPrefix(emitter.trace, NestedCalls(cfg.middlewares, emitter.event))
        /\ emitter.pc = "done" =>
              /\ emitter.trace = NestedCalls(cfg.middlewares, emitter.event)
              /\ \A i \in 1..Len(cfg.middlewares) :
                    Cardinality({k \in DOMAIN emitter.trace :
                                    emitter.trace[k].at = "enter"
                                        /\ emitter.trace[k].depth = i}) = 1

\* the test's application: AddAsterisk registered before AddExclamation
C17_Witness ==
    /\ cfg.middlewares = <<"AddAsterisk", "AddExclamation">>
    /\ emitter.pc = "done" /\ emitter.event = "test_event"
    /\ emitter.message = <<"!", "*">>
    /\ emitter.returned = "response"

(***************************************************************************)
(* C18.  Requests interleave only between the steps of the model, and      *)
(* autowire_module runs within one step.  So at every point where          *)
(* another request can run: a slot of the application is pending only as   *)
(* the leftover of a resolution that raised on its way through that slot;  *)
(* no type has two instances in one scope; and when no bean factory is     *)
(* registered, the constructors' dependency graph has no cycle and nothing *)
(* else has raised, nobody is told of a circular dependency.               *)
(***************************************************************************)
RECURSIVE ModuleReach(_, _, _)
\* the types autowire_module(app, t) can get to in at most n nested calls
ModuleReach(c, t, n) ==
    IF n = 0 THEN {t}
    ELSE ModuleReach(c, t, n - 1)
            \cup UNION {{get_depends_on(c, u)[i] : i \in DOMAIN get_depends_on(c, u)} :
                           u \in ModuleReach(c, t, n - 1) \cap Classes}

\* some class can get back to itself through constructor parameters
HasCycle(c) ==
    \E t \in Classes : \E i \in DOMAIN get_depends_on(c, t) :
        t \in ModuleReach(c, get_depends_on(c, t)[i], Cardinality(Classes))

C18_NoConcurrentConstruction ==
    /\ \A t \in Types :
          app[t].st = "PENDING" =>
              \E e \in raised : e.at \in ModuleReach(cfg, t, Cardinality(Classes))
    /\ \A t \in Classes : \A scope \in {0} \cup ReqIds :
          Cardinality({v \in made : v.k = "inst" /\ v.cls = t /\ v.scope = scope}) <= 1
    /\ (\E e \in raised : e.err = "circular") =>
          \/ HasCycle(cfg)
          \/ cfg.beans # {}
          \/ \E e \in raised : e.err # "circular"

\* two requests are both suspended after their middleware; neither was preceded
\* by a resolution of the application, and the services of both hold the one ModA
C18_Witness ==
    /\ appCalls = 0 /\ raised = {} /\ ~HasCycle(cfg) /\ cfg.beans = {}
    /\ req[1].pc = "mw" /\ req[1].mw = 1 /\ req[2].pc = "mw" /\ req[2].mw = 1
    /\ app["ModA"].st = "READY"
    /\ \E v1, v2 \in made :
          /\ v1.cls = "SvcA" /\ v1.scope = 1 /\ v2.cls = "SvcA" /\ v2.scope = 2
          /\ ArgsOfClass(v1, "ModA") = {app["ModA"].val}
          /\ ArgsOfClass(v2, "ModA") = {app["ModA"].val}

(***************************************************************************)
(* C19.  A slot of the application is not left pending by a resolution     *)
(* that ended without an instance: between the steps, when no resolution   *)
(* is in progress, every slot of the application is absent or holds an     *)
(* instance.                                                               *)
(***************************************************************************)
C19_PendingReset ==
    \A t \in Types : app[t].st \in {"ABSENT", "READY"}

(***************************************************************************)
(* C20.  autowire_module never constructs, and never stores in the         *)
(* application, an instance of a class that is no Module, be it the        *)
(* requested type or a constructor dependency of a Module; such a          *)
(* resolution raises.                                                      *)
(***************************************************************************)
C20_OnlyModules ==
    /\ \A v \in made : v.scope = 0 /\ v.k = "inst" => IsModule(v.cls)
    /\ \A t \in Types : app[t].st = "READY" => IsModule(t)
    /\ \A x \in returned : x.via = "autowire_module" => IsModule(x.cls)

(***************************************************************************)
(* C21.  Whatever the handler's parameters and whatever was pushed, one    *)
(* invocation of the wrapped handler (of either binder) reads the raw      *)
(* request payload at most once; each BODY parameter bound from the raw    *)
(* payload accounts for one read.                                          *)
(***************************************************************************)
RawBound(r) == {i \in DOMAIN req[r].bound : req[r].bound[i].src = "raw"}

C21_ReadAtMostOnce ==
    \A r \in ReqIds :
        /\ req[r].reads <= 1
        /\ Cardinality(RawBound(r)) <= req[r].reads
        /\ ~req[r].binding => req[r].reads = 0

\* three BODY parameters and nothing pushed: the payload was read once, for the
\* first, and the binder went on to the second
C21_Witness ==
    \E r \in ReqIds :
        /\ req[r].pc = "done" /\ req[r].pushed = <<>>
        /\ Len(BodyParamsOf(cfg.route.params)) = 3
        /\ cfg.route.impl = "router"
        /\ req[r].reads = 1 /\ RawBound(r) = {1}
        /\ req[r].out.param = "raw_vo"

(***************************************************************************)
(* C22.  The user handler is invoked at most once per request, and only    *)
(* with every declared parameter bound: each BODY parameter has its        *)
(* positional argument, every other parameter its keyword argument.  When  *)
(* a BODY or QUERY_OR_PATH coercion failed or a resolution raised, the     *)
(* handler is not invoked, and no parameter is coerced twice.              *)
(***************************************************************************)
AllBound(r) ==
    /\ Len(req[r].args) = Len(BodyParamsOf(cfg.route.params))
    /\ Len(req[r].bound) = Len(BodyParamsOf(cfg.route.params))
    /\ \A i \in DOMAIN cfg.route.params :
          ~IsBody(cfg.route.params[i]) => cfg.route.params[i].name \in DOMAIN req[r].kwargs

BindingFailed(r) ==
    \/ \E i \in DOMAIN req[r].casts : req[r].casts[i].exc # "-"
    \/ \E e \in raised : e.rid = r /\ e.via = "handler"
    \/ req[r].out.msg \in {"missing required parameter", "request stack is empty for param",
                           "positional only param must be bytes"}

C22_InvokedWhenBound ==
    \A r \in ReqIds : cfg.route.impl = "ioc" =>
        /\ req[r].invoked <= 1
        /\ req[r].invoked = 1 => AllBound(r) /\ ~BindingFailed(r)
        /\ req[r].invoked = 1 <=> req[r].pc = "awaiting" \/ req[r].result # "-"
        /\ \A i, j \in DOMAIN req[r].casts :
              req[r].casts[i].name = req[r].casts[j].name => i = j

\* a handler with two injected and two BODY parameters was invoked with all
\* four bound, two of them coerced
C22_Witness ==
    \E r \in ReqIds :
        /\ cfg.route.impl = "ioc" /\ Len(cfg.route.params) = 4
        /\ req[r].invoked = 1 /\ AllBound(r) /\ Len(req[r].casts) = 2
        /\ DOMAIN req[r].kwargs = {"svc", "mod"}

(***************************************************************************)
(* C23.  The hooks of each Module are in each of the three hook lists      *)
(* exactly once, from the moment the Module is constructed: each list      *)
(* holds exactly the Module instances constructed so far, each once, so a  *)
(* cached re-resolution, a resolution that raises and a later request add  *)
(* nothing.                                                                *)
(***************************************************************************)
ModulesMade == {v \in made : v.k = "inst" /\ v.scope = 0 /\ IsModule(v.cls)}

HooksOnce(hooks) ==
    /\ {hooks[i] : i \in DOMAIN hooks} = ModulesMade
    /\ Len(hooks) = Cardinality(ModulesMade)

C23_HooksOnce ==
    /\ HooksOnce(on_startup) /\ HooksOnce(on_cleanup) /\ HooksOnce(on_shutdown)
    /\ \A i \in DOMAIN on_startup :
          app[on_startup[i].cls] = ReadySlot(on_startup[i])

\* ModA was resolved by the application and again, from the cache, for the
\* handlers of two requests; its hooks and those of ModB are registered once
C23_Witness ==
    /\ Len(on_startup) = 2 /\ on_startup[1].cls = "ModB" /\ on_startup[2].cls = "ModA"
    /\ \E x, y, z \in returned :
          /\ x.cls = "ModA" /\ x.via = "autowire_module"
          /\ y.cls = "ModA" /\ y.via = "handler" /\ y.rid = 1
          /\ z.cls = "ModA" /\ z.via = "handler" /\ z.rid = 2

(***************************************************************************)
(* C24.  A Middleware is in the request-handling chain exactly once:       *)
(* after any registrations and any resolutions of the Middleware type, by  *)
(* a scan request or by ordinary requests, the chain has one entry for     *)
(* the type, and the Middleware runs once per request.                     *)
(***************************************************************************)
ChainEntries(cls) == {i \in DOMAIN cfg.middlewares : cfg.middlewares[i] = cls}

C24_AppendedOnce ==
    \A cls \in Classes : Cardinality(ChainEntries(cls)) <= 1

(***************************************************************************)
(* C25.  As claimed: in the result of coercing an object against a record  *)
(* type, a lacked optional field whose type is optional is present with    *)
(* None, every other lacked optional field is absent, and a lacked         *)
(* optional field never makes the coercion fail.                           *)
(***************************************************************************)
OptionalFields == inspect_type(casted.tp).val.optional

RequiredFields ==
    IF OptionalFields # {} THEN DOMAIN RecordHints \ OptionalFields
    ELSE inspect_type(casted.tp).val.required

\* the object has fields of the record only, they coerce, and it lacks no
\* required field of a type that is not optional
Coercible ==
    /\ UnknownKeys = {} /\ BadKeys = {}
    /\ \A k \in RequiredFields \ DOMAIN casted.data.f : is_optional_type(RecordHints[k])

C25_AsClaimed ==
    IsRecordCall =>
        /\ Coercible => casted.out.ok
        /\ casted.out.ok =>
              \A k \in OptionalFields \ DOMAIN casted.data.f :
                  IF is_optional_type(RecordHints[k])
                  THEN k \in DOMAIN casted.out.val.f /\ casted.out.val.f[k] = JNone
                  ELSE k \notin DOMAIN casted.out.val.f

(***************************************************************************)
(* C25, amended.  It is a lacked required field whose type is optional     *)
(* that is present in the result with None; a lacked optional field is     *)
(* absent from the result whatever its type, and never makes the coercion  *)
(* fail.                                                                   *)
(***************************************************************************)
C25_NoneFill ==
    IsRecordCall =>
        /\ Coercible => casted.out.ok
        /\ casted.out.ok =>
              /\ Coercible
              /\ DOMAIN casted.out.val.f =
                    DOMAIN casted.data.f \cup (RequiredFields \ DOMAIN casted.data.f)
              /\ \A k \in RequiredFields \ DOMAIN casted.data.f : casted.out.val.f[k] = JNone
              /\ \A k \in OptionalFields \ DOMAIN casted.data.f :
                    k \notin DOMAIN casted.out.val.f

\* {"name": "John"} against Account: nick is None, tag and age are absent
C25_Witness ==
    /\ IsRecordCall /\ casted.tp = "Account"
    /\ casted.data = JObj([name |-> JStr("John")])
    /\ casted.out = Ok(JObj([name |-> JStr("John"), nick |-> JNone]))

(***************************************************************************)
(* C26.  On every dependency graph of the model, cyclic or not, each call  *)
(* of autowire_module and of autowire comes to an end, with a value        *)
(* returned or an error raised, and the construction of a type is entered  *)
(* at most once per registry: a constructor or factory is invoked at most  *)
(* once per type and registry, and the slot of a type whose construction   *)
(* was entered is never absent again.                                      *)
(***************************************************************************)
Registry(scope) == IF scope = 0 THEN app ELSE req[scope].reg

C26_Terminates ==
    /\ \A x \in returned : x.val # NoVal
    /\ \A e \in raised : e.err # "none" /\ e.at \in Types
    /\ \A cls \in Classes : \A scope \in {0} \cup ReqIds :
          Cardinality({v \in made : v.cls = cls /\ v.scope = scope}) <= 1
    /\ \A v \in made : Registry(v.scope)[v.cls].st # "ABSENT"

\* on a cyclic graph the application's call and both requests have ended, with
\* a circular-dependency error among the outcomes
C26_Witness ==
    /\ HasCycle(cfg) /\ appCalls = 1
    /\ \A r \in ReqIds : req[r].pc = "done"
    /\ \E e \in raised : e.err = "circular"

(***************************************************************************)
(* The dependency graph: an edge from t to each parameter of t's           *)
(* constructor and of t's bean factory.                                    *)
(***************************************************************************)
Params(c, t) ==
    IF t \in Classes
    THEN {get_depends_on(c, t)[i] : i \in DOMAIN get_depends_on(c, t)}
            \cup {bean_depends_on(c, t)[i] : i \in DOMAIN bean_depends_on(c, t)}
    ELSE {}

RECURSIVE Reach(_, _, _)
Reach(c, from, n) ==
    IF n = 0 THEN from
    ELSE Reach(c, from, n - 1) \cup UNION {Params(c, u) : u \in Reach(c, from, n - 1)}

SelfReachable(c, t) == t \in Reach(c, Params(c, t), Cardinality(Classes))

(***************************************************************************)
(* C27.  A circular-dependency error is raised for a type only if the type *)
(* is reachable from itself in the dependency graph, whatever resolutions  *)
(* the registry has seen before, those that ended with an error of a       *)
(* dependency or of a constructor included.                                *)
(***************************************************************************)
C27_CircularOnlyOnCycle ==
    \A e \in raised : e.err = "circular" => SelfReachable(cfg, e.at)

(***************************************************************************)
(* C28.  In each hook list a component comes after every component it      *)
(* depends on: each constructor parameter of a registered component is a   *)
(* component registered at an earlier position, and it is the instance     *)
(* the component was constructed with.  The startup, cleanup and shutdown  *)
(* lists always hold the same components in the same order.                *)
(***************************************************************************)
PostOrder(hooks) ==
    \A i \in DOMAIN hooks :
        /\ Len(hooks[i].args) = Len(get_depends_on(cfg, hooks[i].cls))
        /\ \A k \in DOMAIN hooks[i].args :
              \E j \in 1..(i - 1) :
                  /\ hooks[j] = hooks[i].args[k]
                  /\ hooks[j].cls = get_depends_on(cfg, hooks[i].cls)[k]

C28_HooksPostOrder ==
    /\ PostOrder(on_startup) /\ PostOrder(on_cleanup) /\ PostOrder(on_shutdown)
    /\ on_startup = on_cleanup /\ on_cleanup = on_shutdown

\* ModB was resolved by the application on its own; ModA, which depends on
\* it, was constructed later for a request and is registered after it
C28_Witness ==
    /\ \E x \in returned : x.cls = "ModB" /\ x.via = "autowire_module"
    /\ ~\E x \in returned : x.cls = "ModA" /\ x.via = "autowire_module"
    /\ Len(on_shutdown) = 2 /\ Len(on_cleanup) = 2
    /\ on_shutdown[2].cls = "ModA" /\ on_shutdown[2].args = <<on_cleanup[1]>>

(***************************************************************************)
(* C29.  On a request whose path is the scan path autowire invokes no      *)
(* request-scope constructor and no bean factory and stores the            *)
(* placeholder in the slot; and a type resolved both on a scan request and *)
(* on an ordinary request raises a circular-dependency or not-injectable   *)
(* error of the request scope on the one exactly if it does on the other.  *)
(***************************************************************************)
Resolved(r, T) ==
    \E x \in returned \cup raised : x.rid = r /\ x.cls = T

WiringError(r, T) ==
    \E e \in raised :
        /\ e.rid = r /\ e.cls = T
        /\ e.err \in {"circular", "not_injectable"}
        /\ ~IsModule(e.at)

C29_ScanSameErrors ==
    /\ \A r \in ReqIds : req[r].path = LESSWEB_SCAN_PATH =>
          /\ ~\E v \in made : v.scope = r
          /\ \A T \in Types : req[r].reg[T].st = "READY" => req[r].reg[T].val = ScanMark
    /\ \A r1, r2 \in ReqIds : \A T \in Types :
          (/\ req[r1].path = LESSWEB_SCAN_PATH /\ req[r2].path # LESSWEB_SCAN_PATH
           /\ Resolved(r1, T) /\ Resolved(r2, T))
          => (WiringError(r1, T) <=> WiringError(r2, T))

(***************************************************************************)
(* C30.  Whatever the order in which the requests push and bind, the stack *)
(* of a request is the payloads pushed on that request without the ones    *)
(* already popped, in push order: the payloads are popped from the end, so *)
(* the stack is a prefix of the request's pushes, the j-th BODY parameter  *)
(* bound from the stack holds the j-th payload from the end, and nothing   *)
(* else leaves the stack (a popped payload that failed coercion apart).    *)
(* A payload bound on a request is one pushed on that request.             *)
(***************************************************************************)
StackBound(r) == SelectSeq(req[r].bound, LAMBDA b : b.src = "stack")

C30_StackIntegrity ==
    \A r \in ReqIds :
        LET pushed == req[r].pushed
            stack == req[r].stack
            popped == StackBound(r)
        IN /\ Len(stack) <= Len(pushed)
           /\ stack = SubSeq(pushed, 1, Len(stack))
           /\ \A j \in DOMAIN popped :
                 /\ popped[j].idx = Len(pushed) - j + 1
                 /\ popped[j].data = pushed[popped[j].idx]
           /\ \/ Len(stack) = Len(pushed) - Len(popped)
              \/ /\ Len(stack) = Len(pushed) - Len(popped) - 1
                 /\ req[r].out # NoOutcome
           /\ req[r].stack_key \/ (stack = <<>> /\ pushed = <<>>)

\* request 1 has pushed its payload and waits; request 2, with another body,
\* has pushed and has bound a BODY parameter from its own stack meanwhile
C30_Witness ==
    /\ req[1].body # req[2].body
    /\ req[1].stack = <<req[1].body>> /\ req[1].bound = <<>> /\ ~req[1].binding
    /\ req[2].pushed = <<req[2].body>> /\ req[2].stack = <<>>
    /\ Len(StackBound(2)) = 1 /\ StackBound(2)[1].data = req[2].body

====
